---------------------------- MODULE Spec2Model ----------------------------
(***************************************************************************)
(* Model of the NaturewatchCameraServer capture core:                      *)
(*   - the two camera drivers (RaspberryPiDriver.RPiDriver and             *)
(*     MockDriver.MockDriver) behind driver/Interface.py,                  *)
(*   - CameraController (the acquisition thread, stop(), the setters),     *)
(*   - the request handlers of api.py that drive them.                     *)
(*                                                                         *)
(* Identifiers in the sources are read as referring to the definitions     *)
(* they evidently name (ExposureMode in CameraController.py is the enum of *)
(* driver/Interface.py, time in RaspberryPiDriver.py is the standard       *)
(* module, can_autofocus in RPiDriver.autofocus is the property of the     *)
(* driver); Config.flush only persists the configuration and has no effect *)
(* on the state modelled here.  Calls into picamera2, OpenCV and GPIO are  *)
(* modelled by their effect on the driver object: a camera handle that is  *)
(* open or not, an encoder that runs or not, an output that records or     *)
(* not.                                                                    *)
(*                                                                         *)
(* Specifications:                                                         *)
(*   Spec         acquisition thread, stop() and one settings request      *)
(*   SpecAcq      acquisition thread and stop() alone                      *)
(*   SpecOps      the setters and initialise_camera, one call at a time    *)
(*   SpecPost     POST /settings                                           *)
(*   SpecTime     concurrent POST /time requests                           *)
(*   SpecExposure the exposure read-back, over all shutter speeds          *)
(*   SpecVideo    the circular-buffer video protocol                       *)
(*   SpecSession, SpecSessionFair                                          *)
(*                video sessions: start, trigger, timeout, handoff, stop   *)
(*   SpecReconfigure  the video protocol with set_resolution and           *)
(*                set_camera_rotation                                      *)
(*   SpecDetector photo and timelapse sessions with the settings command   *)
(*   SpecTimelapse    a timelapse or photo session over a long run         *)
(*   SpecSensitivity  the sensitivity presets and bounding-box widths      *)
(*   SpecReaders  the acquisition thread and the consumers of its frames   *)
(*   SpecAutofocus    one autofocus call, with stop()                      *)
(*   SpecPoll     the acquisition thread while recording_active changes    *)
(*   SpecMock     MockDriver's frame requests with the video protocol      *)
(*   SpecFeed     the feeds starting the acquisition thread, with stop()   *)
(* ChangeDetector.py and FileSaver.py are not among the sources; the       *)
(* attributes api.py assigns, the sessions, the motion predicate and the   *)
(* trigger handling of the capture pipeline follow the specification.      *)
(***************************************************************************)
EXTENDS Integers, Sequences, FiniteSets, TLC

VARIABLES
    variant,        \* which driver class __init__.py selected: "rpi" | "mock"
    config,         \* the Config object shared by controller, driver and api
    driver,         \* the driver object's fields
    stop_event,     \* CameraController._stop_event
    acq_pc,         \* position of the acquisition thread (CameraController.run)
    yuvimage,       \* CameraController.yuvimage: capture number, 0 = None
    image,          \* CameraController.image: capture number, 0 = None
    captures,       \* number of captures the driver has delivered
    faults,         \* hardware faults injected so far
    stop_pc,        \* position of the thread calling CameraController.stop
    req_pc,         \* position of the request thread running a setter
    req_cmd,        \* the setter command the request thread is executing
    change_detector,\* the ChangeDetector attributes api.py assigns
    last_call,      \* the last operation called one at a time, and its outcome
    init_streak,    \* successful initialise_camera calls made in a row (0..2)
    pipeline,       \* capture protocol position: "Idle" | "Armed" |
                    \* "Capturing" | "Stopping"
    clock,          \* time.time(), in seconds
    time_req,       \* the update_time requests in progress, one per thread
    time_assigned,  \* how many times device_time has been assigned
    ExpValue,       \* the shutter speed the driver reports
    closest,        \* what find_closest_exposure returned for it
    capture,        \* the trigger that began the capture, and its deadline
    file_saver,     \* what has been handed to FileSaver: videos and photos
    reader,         \* the consumers of the latest frame, one per thread
    out_vid,        \* the frames MockDriver wrote to the last video file
    motion,         \* the last motion event: bounding-box width and verdict
    af,             \* the driver's autofocus call: position and cycles run
    recording_active, \* CameraController.recording_active
    acq_sleep,      \* the wait the acquisition loop last chose, in ms
    thread_starts   \* what the Thread.start() calls on the controller did

history == << last_call, init_streak, pipeline, change_detector >>

time_vars == << clock, time_req, time_assigned >>

exposure_vars == << ExpValue, closest >>

edge_vars == << file_saver, reader, out_vid, motion >>

ctl_vars == << af, recording_active, acq_sleep, thread_starts >>

vars == << variant, config, driver, stop_event, acq_pc, yuvimage, image,
           captures, faults, stop_pc, req_pc, req_cmd, change_detector,
           last_call, init_streak, pipeline, clock, time_req, time_assigned,
           ExpValue, closest, capture, file_saver, reader, out_vid, motion,
           af, recording_active, acq_sleep, thread_starts >>

(***************************************************************************)
(* Bounds of the model.                                                    *)
(***************************************************************************)
MaxFaults == 2
MaxCaptures == 2
MaxTimeThreads == 2
MaxClock == 4
MaxReaders == 2
MaxSaves == 2
MaxPhotos == 3
MaxRun == 30

\* Python's None: as a path, and as a number where a number is expected
None == "None"
NoneNum == -1

Variants == {"rpi", "mock"}
Resolutions == {"1640x1232", "1920x1080"}
BadResolutions == {"640x480"}
ShutterSpeeds == {5000}
Gains == {1}

(***************************************************************************)
(* ServerConfig.Config                                                     *)
(***************************************************************************)
Width(resolution) ==
    CASE resolution = "1640x1232" -> 1640
      [] resolution = "1920x1080" -> 1920
      [] OTHER -> 640

Height(resolution) ==
    CASE resolution = "1640x1232" -> 1232
      [] resolution = "1920x1080" -> 1080
      [] OTHER -> 480

hi_res(cfg) == << Width(cfg.resolution), Height(cfg.resolution) >>

(***************************************************************************)
(* driver/Interface.py                                                     *)
(***************************************************************************)
LEDState_OFF == FALSE
LEDState_ON == TRUE
ExposureMode_AUTO == "auto"
ExposureMode_MANUAL == "manual"

\* A driver object right after Driver(logger): no camera, no callback.
NewDriver ==
    [ cam              |-> "none",     \* "none" | "open" | "closed"
      handles          |-> 0,          \* camera/video handles currently open
      LED              |-> LEDState_OFF,
      exposure         |-> [ mode |-> ExposureMode_AUTO,
                             shutter_speed |-> 0, analogue_gain |-> 0 ],
      rotated          |-> FALSE,
      size             |-> << 0, 0 >>,
      encoder_running  |-> FALSE,
      fileoutput       |-> None,
      recording        |-> FALSE,
      vid_cap_start_time |-> NoneNum, \* MockDriver: where the capture begins
      vid_cap_file_path  |-> None,    \* MockDriver: the file to write
      vid_cap_start_frame |-> NoneNum,\* MockDriver: computed, never read
      hires_pos        |-> 0,          \* MockDriver: next frame of the HIRES
                                       \* video, CAP_PROP_POS_FRAMES
      lores_pos        |-> 0,          \* MockDriver: next frame of the LORES
                                       \* video
      wall_time        |-> NoneNum,    \* MockDriver: time of the last advance
      pre_callback     |-> FALSE,      \* hook installed on the camera object
      callback         |-> FALSE ]     \* hook stored in the driver object

Ok(d) == [ drv |-> d, exc |-> FALSE ]
Raise(d) == [ drv |-> d, exc |-> TRUE ]

ConfigLED(cfg) == IF cfg.LED = "off" THEN LEDState_OFF ELSE LEDState_ON

ConfigExposureMode(cfg) ==
    IF cfg.exposure_mode = "auto" THEN ExposureMode_AUTO ELSE ExposureMode_MANUAL

(***************************************************************************)
(* RaspberryPiDriver.RPiDriver                                             *)
(***************************************************************************)
RPi_configure_LED(d, state) == Ok([d EXCEPT !.LED = state])

RPi_set_exposure(d, mode, exposure_time, analogue_gain) ==
    IF d.cam # "open" THEN Raise(d)
    ELSE IF mode = ExposureMode_AUTO
    THEN Ok([d EXCEPT !.exposure = [ mode |-> ExposureMode_AUTO,
                                     shutter_speed |-> 0,
                                     analogue_gain |-> 0 ]])
    ELSE IF exposure_time = NoneNum \/ analogue_gain = NoneNum THEN Raise(d)
    ELSE Ok([d EXCEPT !.exposure = [ mode |-> ExposureMode_MANUAL,
                                     shutter_speed |-> exposure_time,
                                     analogue_gain |-> analogue_gain ]])

\* the old camera is never closed
RPi_close_Skipped(d) == d

\* self.camera.close() when self.camera is not None
RPi_close(d) ==
    IF d.cam = "none" THEN d
    ELSE [d EXCEPT !.cam = "closed",
                   !.handles = IF d.cam = "open" THEN d.handles - 1 ELSE d.handles]

\* fault: Picamera2() cannot connect to the camera.  A camera that is still
\* held open by another Picamera2 object cannot be acquired either.
RPi_initialise_picamera(d, cfg, fault) ==
    LET closed == RPi_close(d) IN
    IF fault \/ closed.handles > 0 THEN Raise(closed)
    ELSE LET started == [closed EXCEPT !.cam = "open",
                                       !.handles = closed.handles + 1,
                                       !.rotated = (cfg.rotate_camera = 1),
                                       !.size = hi_res(cfg),
                                       !.pre_callback = FALSE]
             exposed == RPi_set_exposure(started, ConfigExposureMode(cfg),
                                         cfg.shutter_speed, cfg.analogue_gain)
         IN IF exposed.exc THEN exposed
            ELSE Ok([exposed.drv EXCEPT !.encoder_running = FALSE,
                                        !.fileoutput = None,
                                        !.recording = FALSE])

RPi_initialise_camera(d, cfg, fault) ==
    RPi_initialise_picamera(RPi_configure_LED(d, ConfigLED(cfg)).drv, cfg, fault)

RPi_stop(d) ==
    IF d.cam = "none" THEN Raise(d)
    ELSE Ok([RPi_close(d) EXCEPT !.cam = "none", !.encoder_running = FALSE])

RPi_set_preprocess_callback(d, callback) ==
    IF d.cam = "none" THEN Raise(d)
    ELSE Ok([d EXCEPT !.callback = callback, !.pre_callback = callback])

(***************************************************************************)
(* MockDriver.MockDriver                                                   *)
(***************************************************************************)
Mock_configure_LED(d, state) == Ok([d EXCEPT !.LED = state])

Mock_set_exposure(d, mode, exposure_time, analogue_gain) ==
    Ok([d EXCEPT !.exposure =
          [ mode |-> mode,
            shutter_speed |-> IF exposure_time = NoneNum THEN 1 ELSE exposure_time,
            analogue_gain |-> IF analogue_gain = NoneNum THEN 1 ELSE analogue_gain ]])

\* time.time(): the wall clock, in seconds
time_time == clock

\* fault: cv2.VideoCapture(vid_path) does not open.  The two captures of the
\* previous self.video are dropped when the dictionary is replaced; the new
\* ones start at frame 0, and self.wall_time = time.time().
Mock_initialise_camera(d, cfg, fault) ==
    LET led == Mock_configure_LED(d, ConfigLED(cfg)).drv IN
    IF fault THEN Raise([led EXCEPT !.cam = "closed", !.handles = 0])
    ELSE Ok([led EXCEPT !.cam = "open",
                        !.handles = 2,
                        !.size = hi_res(cfg),
                        !.exposure = [ mode |-> ConfigExposureMode(cfg),
                                       shutter_speed |-> cfg.shutter_speed,
                                       analogue_gain |-> cfg.analogue_gain ],
                        !.rotated = (cfg.rotate_camera = 1),
                        !.hires_pos = 0,
                        !.lores_pos = 0,
                        !.wall_time = time_time])

Mock_stop(d) ==
    IF d.cam = "none" THEN Raise(d)
    ELSE Ok([d EXCEPT !.cam = "closed", !.handles = 0])

Mock_set_preprocess_callback(d, callback) == Ok([d EXCEPT !.callback = callback])

(***************************************************************************)
(* Dispatch on the driver class (DriverInterface)                          *)
(***************************************************************************)
initialise_camera(v, d, cfg, fault) ==
    IF v = "rpi" THEN RPi_initialise_camera(d, cfg, fault)
    ELSE Mock_initialise_camera(d, cfg, fault)

configure_LED(v, d, state) ==
    IF v = "rpi" THEN RPi_configure_LED(d, state) ELSE Mock_configure_LED(d, state)

driver_set_exposure(v, d, mode, exposure_time, analogue_gain) ==
    IF v = "rpi" THEN RPi_set_exposure(d, mode, exposure_time, analogue_gain)
    ELSE Mock_set_exposure(d, mode, exposure_time, analogue_gain)

driver_stop(v, d) == IF v = "rpi" THEN RPi_stop(d) ELSE Mock_stop(d)

set_preprocess_callback(v, d, callback) ==
    IF v = "rpi" THEN RPi_set_preprocess_callback(d, callback)
    ELSE Mock_set_preprocess_callback(d, callback)

\* driver.get_yuv_image(LORES) delivers a frame only from an open camera
CanCapture(d) == d.cam = "open"

(***************************************************************************)
(* CameraController.__init__                                               *)
(***************************************************************************)
Constructed(v, cfg) ==
    LET d == initialise_camera(v, NewDriver, cfg, FALSE).drv IN
    IF cfg.timestamp = "on" THEN set_preprocess_callback(v, d, TRUE).drv ELSE d

Configs ==
    [ rotate_camera : {0, 1},
      resolution    : {"1640x1232"},
      img_width     : {1640},
      img_height    : {1232},
      exposure_mode : {"auto"},
      shutter_speed : ShutterSpeeds,
      analogue_gain : Gains,
      LED           : {"off", "on"},
      timestamp     : {"off", "on"},
      timelapse_active   : {FALSE},
      timelapse_interval : {10},
      sensitivity        : {"default"} ]

(***************************************************************************)
(* CameraController setters.  Each is split where it calls the driver:     *)
(* X_before is the code up to the call (the guard, the assertion, the      *)
(* writes to self.config), giving the configuration, the driver call made  *)
(* ("none" when the setter returns without one) and whether it raised;     *)
(* X_after is the code after the call.                                     *)
(***************************************************************************)
NoCall(cfg) == [ cfg |-> cfg, call |-> "none", exc |-> FALSE ]
Call(cfg, name) == [ cfg |-> cfg, call |-> name, exc |-> FALSE ]
Rejected(cfg) == [ cfg |-> cfg, call |-> "none", exc |-> TRUE ]

set_camera_rotation_before(cfg, rotation) ==
    IF (cfg.rotate_camera = 1) # rotation
    THEN Call([cfg EXCEPT !.rotate_camera = IF rotation THEN 1 ELSE 0],
              "initialise_camera")
    ELSE NoCall(cfg)

\* the camera is reinitialised whether the resolution changes or not
set_resolution_before_Always(cfg, resolution) ==
    IF resolution \notin Resolutions THEN Rejected(cfg)
    ELSE Call([cfg EXCEPT !.resolution = resolution,
                          !.img_height = Height(resolution),
                          !.img_width = Width(resolution)],
              "initialise_camera")

set_resolution_before(cfg, resolution) ==
    IF resolution # cfg.resolution
    THEN IF resolution \notin Resolutions THEN Rejected(cfg)
         ELSE Call([cfg EXCEPT !.resolution = resolution,
                               !.img_height = Height(resolution),
                               !.img_width = Width(resolution)],
                   "initialise_camera")
    ELSE NoCall(cfg)

set_exposure_before(cfg, ExposureTime, AnalogueGain) ==
    Call([cfg EXCEPT !.shutter_speed = ExposureTime,
                     !.analogue_gain = AnalogueGain,
                     !.exposure_mode = "off"],
         "set_exposure")

auto_exposure_before(cfg) ==
    Call([cfg EXCEPT !.exposure_mode = "auto"], "set_exposure")

set_LED_before(cfg, LED) ==
    IF cfg.LED # LED THEN Call(cfg, "configure_LED") ELSE NoCall(cfg)

set_LED_after(cfg, LED) ==
    [cfg EXCEPT !.LED = IF LED = "off" THEN "off" ELSE "on"]

set_TimestampMode_before(cfg, timestamp) ==
    NoCall([cfg EXCEPT !.timestamp = IF timestamp = "off" THEN "off" ELSE "on"])

(***************************************************************************)
(* A setter command, as the api layer issues it.                           *)
(***************************************************************************)
Cmd(op, rotation, resolution, LED, shutter, gain, timestamp) ==
    [ op |-> op, rotation |-> rotation, resolution |-> resolution,
      LED |-> LED, shutter_speed |-> shutter, analogue_gain |-> gain,
      timestamp |-> timestamp ]

NoCmd == Cmd("none", FALSE, "1640x1232", "off", 0, 0, "off")
RotationCmd(r) == Cmd("set_camera_rotation", r, "1640x1232", "off", 0, 0, "off")
ResolutionCmd(r) == Cmd("set_resolution", FALSE, r, "off", 0, 0, "off")
LEDCmd(l) == Cmd("set_LED", FALSE, "1640x1232", l, 0, 0, "off")
ExposureCmd(t, g) == Cmd("set_exposure", FALSE, "1640x1232", "off", t, g, "off")
AutoExposureCmd == Cmd("auto_exposure", FALSE, "1640x1232", "off", 0, 0, "off")
TimestampCmd(t) == Cmd("set_TimestampMode", FALSE, "1640x1232", "off", 0, 0, t)

Before(cfg, cmd) ==
    CASE cmd.op = "set_camera_rotation" ->
            set_camera_rotation_before(cfg, cmd.rotation)
      [] cmd.op = "set_resolution" -> set_resolution_before(cfg, cmd.resolution)
      [] cmd.op = "set_exposure" ->
            set_exposure_before(cfg, cmd.shutter_speed, cmd.analogue_gain)
      [] cmd.op = "auto_exposure" -> auto_exposure_before(cfg)
      [] cmd.op = "set_LED" -> set_LED_before(cfg, cmd.LED)
      [] cmd.op = "set_TimestampMode" ->
            set_TimestampMode_before(cfg, cmd.timestamp)
      [] OTHER -> NoCall(cfg)

\* The driver call a setter makes, with the arguments it passes.
DriverCall(v, d, cfg, cmd, call, fault) ==
    CASE call = "initialise_camera" -> initialise_camera(v, d, cfg, fault)
      [] call = "configure_LED" ->
            configure_LED(v, d, IF cmd.LED = "off" THEN LEDState_OFF
                                ELSE LEDState_ON)
      [] call = "set_exposure" ->
            IF cmd.op = "auto_exposure"
            THEN driver_set_exposure(v, d, ExposureMode_AUTO, NoneNum, NoneNum)
            ELSE driver_set_exposure(v, d, ExposureMode_MANUAL,
                                     cmd.shutter_speed, cmd.analogue_gain)
      [] OTHER -> Ok(d)

After(cfg, cmd) ==
    IF cmd.op = "set_LED" THEN set_LED_after(cfg, cmd.LED) ELSE cfg

\* A whole setter, run without interruption.
Execute(v, s, cmd, fault) ==
    LET b == Before(s.cfg, cmd) IN
    IF b.exc \/ b.call = "none"
    THEN [ cfg |-> b.cfg, drv |-> s.drv, exc |-> b.exc, call |-> "none" ]
    ELSE LET r == DriverCall(v, s.drv, b.cfg, cmd, b.call, fault) IN
         [ cfg |-> IF r.exc THEN b.cfg ELSE After(b.cfg, cmd),
           drv |-> r.drv, exc |-> r.exc, call |-> b.call ]

(***************************************************************************)
(* Initial state: the application after create_app(), that is after        *)
(* Driver(logger) and CameraController(logger, driver, config).  The       *)
(* acquisition thread exists and has not been started.                     *)
(***************************************************************************)
\* op: the operation; status: "ok" | "raised"; call: the driver call it made;
\* fault: whether the hardware failed during it
Called(op, status, call, fault) ==
    [ op |-> op, status |-> status, call |-> call, fault |-> fault ]

\* user_config["more_sensitivity"], ["min_width"], ["less_sensitivity"] and
\* ["max_width"]: bounding-box widths in pixels (config.json), scaled down
more_sensitivity == 1

min_width == 2

less_sensitivity == 3

max_width == 5

\* ChangeDetector(camera_controller, user_config, logger) takes its settings
\* from the configuration.
NewChangeDetector ==
    [ timelapse_active |-> FALSE, timelapse |-> 10, sensitivity |-> "default",
      minWidth |-> min_width, maxWidth |-> max_width,
      device_time |-> NoneNum, device_time_start |-> NoneNum,
      mode |-> "Idle", session_start_time |-> NoneNum,
      last_photo_time |-> NoneNum, session_photos |-> 0,
      stopping |-> FALSE ]

\* seconds of video kept from before a trigger (config.json)
video_duration_before_motion == 1

\* the threads serving update_time requests
TimeThreads == 1 .. MaxTimeThreads

IdleRequest == [ pc |-> "idle", time_string |-> NoneNum, status |-> NoneNum ]

NoCapture ==
    [ path |-> None, start |-> NoneNum, deadline |-> NoneNum, starts |-> 0 ]

\* the threads reading the latest frame (preview requests, motion detector)
Readers == 1 .. MaxReaders

\* the motion detector's thread, the consumer of get_md_image and
\* get_md_yuvimage
Detector == MaxReaders + 1

Consumers == Readers \cup {Detector}

\* a reader holding no frame: 0 is None, as for yuvimage and image
IdleReader ==
    [ pc |-> "idle", yuv |-> 0, img |-> 0, yuv_shared |-> FALSE,
      img_shared |-> FALSE ]

NoFiles == [ videos |-> << >>, photos |-> 0 ]

NoMotion == [ width |-> NoneNum, qualifies |-> FALSE, preset |-> None ]

\* no autofocus call in progress
NoAutofocus ==
    [ pc |-> "idle", capable |-> FALSE, cycles |-> 0, sleeps |-> 0 ]

\* the thread object before any start(): started is Thread._started,
\* refused counts the start() calls that raised RuntimeError, feed is where
\* each thread serving /feed or /frame stands in generate_mjpg / generate_jpg
NoStarts ==
    [ started |-> FALSE, refused |-> 0, feed |-> [r \in Readers |-> "idle"] ]

\* CameraController.__init__: self.recording_active = False; the thread has
\* not been started and the loop has not waited yet
InitCtl ==
    /\ af = NoAutofocus
    /\ recording_active = FALSE
    /\ acq_sleep = 0
    /\ thread_starts = NoStarts

\* Nothing handed to FileSaver, no reader, no file written, no motion.
InitEdge ==
    /\ InitCtl
    /\ file_saver = NoFiles
    /\ reader = [r \in Consumers |-> IdleReader]
    /\ out_vid = << >>
    /\ motion = NoMotion

\* No clock request, no exposure read-back and no capture so far.
InitRest ==
    /\ InitEdge
    /\ clock = video_duration_before_motion
    /\ time_req = [t \in TimeThreads |-> IdleRequest]
    /\ time_assigned = 0
    /\ ExpValue = 0
    /\ closest = NoneNum
    /\ capture = NoCapture

\* The configuration the threads of Spec start from.
DefaultConfig ==
    [ rotate_camera |-> 0, resolution |-> "1640x1232", img_width |-> 1640,
      img_height |-> 1232, exposure_mode |-> "auto", shutter_speed |-> 5000,
      analogue_gain |-> 1, LED |-> "off", timestamp |-> "off",
      timelapse_active |-> FALSE, timelapse_interval |-> 10,
      sensitivity |-> "default" ]

Init ==
    /\ variant \in Variants
    /\ config = DefaultConfig
    /\ clock = video_duration_before_motion
    /\ driver = Constructed(variant, config)
    /\ stop_event = FALSE
    /\ acq_pc = "unstarted"
    /\ yuvimage = 0
    /\ image = 0
    /\ captures = 0
    /\ faults = 0
    /\ stop_pc = "idle"
    /\ req_pc = "idle"
    /\ req_cmd = NoCmd
    /\ last_call = Called("__init__", "ok", "initialise_camera", FALSE)
    /\ init_streak = 1
    /\ pipeline = "Idle"
    /\ change_detector = NewChangeDetector
    /\ InitRest

\* The hardware faults the environment may still inject.
FaultChoices == IF faults < MaxFaults THEN BOOLEAN ELSE {FALSE}

Inject(fault) == faults' = IF fault THEN faults + 1 ELSE faults

(***************************************************************************)
(* The acquisition thread: CameraController.run                            *)
(***************************************************************************)
\* camera_controller.start(), from generate_mjpg / generate_jpg
Start ==
    /\ acq_pc = "unstarted"
    /\ acq_pc' = "loop"
    /\ UNCHANGED << time_vars, exposure_vars, capture, variant, config, driver, stop_event, yuvimage, image,
                    captures, faults, stop_pc, req_pc, req_cmd, history, edge_vars,
                    ctl_vars >>

\* while not self.is_stopped(): ... enters self.driver.get_yuv_image(LORES)
AcqCheck ==
    /\ acq_pc = "loop"
    /\ acq_pc' = IF stop_event THEN "exited" ELSE "capture"
    /\ UNCHANGED << time_vars, exposure_vars, capture, variant, config, driver, stop_event, yuvimage, image,
                    captures, faults, stop_pc, req_pc, req_cmd, history, edge_vars,
                    ctl_vars >>

\* self.yuvimage = self.driver.get_yuv_image(ImageResolution.LORES)
AcqCaptureOk ==
    /\ acq_pc = "capture"
    /\ CanCapture(driver)
    /\ captures' = (captures % MaxCaptures) + 1
    /\ yuvimage' = captures'
    /\ reader' = [r \in DOMAIN reader |->
                    [reader[r] EXCEPT !.yuv_shared = FALSE]]
    /\ acq_pc' = "convert"
    /\ UNCHANGED << time_vars, exposure_vars, capture, variant, config, driver, stop_event, image, faults,
                    stop_pc, req_pc, req_cmd, history, file_saver, out_vid,
                    motion,
                    ctl_vars >>

\* get_yuv_image raises: the camera is gone, or the hardware drops the frame
AcqCaptureFail ==
    /\ acq_pc = "capture"
    /\ \/ ~CanCapture(driver) /\ Inject(FALSE)
       \/ CanCapture(driver) /\ faults < MaxFaults /\ Inject(TRUE)
    /\ acq_pc' = "reinit"
    /\ UNCHANGED << time_vars, exposure_vars, capture, variant, config, driver, stop_event, yuvimage, image,
                    captures, stop_pc, req_pc, req_cmd, history, edge_vars,
                    ctl_vars >>

\* the waits of run(), in milliseconds: time.sleep(0.03), time.sleep(1) and
\* time.sleep(0.02)
SleepIdle == 30

SleepRecording == 1000

SleepAfterFault == 20

loop_sleep_Inverted(recording) ==
    IF recording = FALSE THEN SleepRecording ELSE SleepIdle

\* if self.recording_active is False: time.sleep(0.03) else: time.sleep(1)
loop_sleep(recording) ==
    IF recording = FALSE THEN SleepIdle ELSE SleepRecording

\* the acquisition thread goes on without reinitialising the camera
AcqReinit_Skipped ==
    /\ acq_pc = "reinit"
    /\ acq_pc' = "sleep"
    /\ acq_sleep' = SleepAfterFault
    /\ UNCHANGED << time_vars, exposure_vars, capture, variant, config, driver,
                    stop_event, yuvimage, image, captures, faults, stop_pc,
                    req_pc, req_cmd, history, edge_vars, af, recording_active,
                    thread_starts >>

\* self.image = cv2.cvtColor(self.yuvimage, cv2.COLOR_YUV420p2RGB), then the
\* wait is chosen
AcqConvert ==
    /\ acq_pc = "convert"
    /\ acq_sleep' = loop_sleep(recording_active)
    /\ image' = yuvimage
    /\ reader' = [r \in DOMAIN reader |->
                    [reader[r] EXCEPT !.img_shared = FALSE]]
    /\ acq_pc' = "sleep"
    /\ UNCHANGED << time_vars, exposure_vars, capture, variant, config, driver, stop_event, yuvimage, captures,
                    faults, stop_pc, req_pc, req_cmd, history, file_saver,
                    out_vid, motion, af, recording_active, thread_starts >>

\* time.sleep(0.03) / time.sleep(1) / time.sleep(0.02)
AcqSleep ==
    /\ acq_pc = "sleep"
    /\ acq_pc' = "loop"
    /\ UNCHANGED << time_vars, exposure_vars, capture, variant, config, driver, stop_event, yuvimage, image,
                    captures, faults, stop_pc, req_pc, req_cmd, history, edge_vars,
                    ctl_vars >>

\* except Exception: self.driver.initialise_camera(self.config), then
\* time.sleep(0.02).  An exception raised here is raised inside the handler
\* and leaves run().
AcqReinit ==
    /\ acq_pc = "reinit"
    /\ \E fault \in FaultChoices :
          LET r == initialise_camera(variant, driver, config, fault) IN
          /\ driver' = r.drv
          /\ acq_pc' = IF r.exc THEN "crashed" ELSE "sleep"
          /\ acq_sleep' = IF r.exc THEN acq_sleep ELSE SleepAfterFault
          /\ Inject(fault)
    /\ UNCHANGED << time_vars, exposure_vars, capture, variant, config, stop_event, yuvimage, image, captures,
                    stop_pc, req_pc, req_cmd, history, edge_vars, af,
                    recording_active, thread_starts >>

(***************************************************************************)
(* CameraController.stop, called from another thread                       *)
(***************************************************************************)
\* self._stop_event.set(); enters self.driver.stop()
StopSet ==
    /\ stop_pc = "idle"
    /\ stop_event' = TRUE
    /\ stop_pc' = "release"
    /\ UNCHANGED << time_vars, exposure_vars, capture, variant, config, driver, acq_pc, yuvimage, image,
                    captures, faults, req_pc, req_cmd, history, edge_vars,
                    ctl_vars >>

\* self.driver.stop() takes effect and returns (or raises)
StopRelease ==
    /\ stop_pc = "release"
    /\ LET r == driver_stop(variant, driver) IN
          /\ driver' = r.drv
          /\ stop_pc' = IF r.exc THEN "raised" ELSE "returned"
    /\ UNCHANGED << time_vars, exposure_vars, capture, variant, config, stop_event, acq_pc, yuvimage, image,
                    captures, faults, req_pc, req_cmd, history, edge_vars,
                    ctl_vars >>

(***************************************************************************)
(* A request thread running one CameraController setter (api.py calls the  *)
(* setters on the thread that serves the request).                         *)
(***************************************************************************)
Commands ==
    {RotationCmd(r) : r \in BOOLEAN}
    \cup {LEDCmd(l) : l \in {"off", "on"}}
    \cup {ExposureCmd(t, g) : t \in ShutterSpeeds, g \in Gains}
    \cup {AutoExposureCmd}

\* the setter runs up to its driver call and enters the driver
ReqBegin ==
    /\ req_pc = "idle"
    /\ \E cmd \in Commands :
          LET b == Before(config, cmd) IN
          /\ config' = b.cfg
          /\ req_pc' = IF b.call = "none" THEN "idle" ELSE b.call
          /\ req_cmd' = IF b.call = "none" THEN NoCmd ELSE cmd
    /\ UNCHANGED << time_vars, exposure_vars, capture, variant, driver, stop_event, acq_pc, yuvimage, image,
                    captures, faults, stop_pc, history, edge_vars,
                    ctl_vars >>

\* the driver call takes effect and returns; the setter runs to its end
ReqReturn ==
    /\ req_pc # "idle"
    /\ \E fault \in (IF req_pc = "initialise_camera" THEN FaultChoices
                      ELSE {FALSE}) :
          LET r == DriverCall(variant, driver, config, req_cmd, req_pc, fault) IN
          /\ driver' = r.drv
          /\ config' = IF r.exc THEN config ELSE After(config, req_cmd)
          /\ Inject(fault)
    /\ req_pc' = "idle"
    /\ req_cmd' = NoCmd
    /\ UNCHANGED << time_vars, exposure_vars, capture, variant, stop_event, acq_pc, yuvimage, image, captures,
                    stop_pc, history, edge_vars,
                    ctl_vars >>

Next ==
    \/ Start
    \/ AcqCheck
    \/ AcqCaptureOk
    \/ AcqCaptureFail
    \/ AcqConvert
    \/ AcqSleep
    \/ AcqReinit
    \/ StopSet
    \/ StopRelease
    \/ ReqBegin
    \/ ReqReturn

Spec == Init /\ [][Next]_vars

(***************************************************************************)
(* Operations called one at a time, the acquisition thread not yet         *)
(* started (it is started by the first feed or frame request).             *)
(***************************************************************************)
InitOps ==
    /\ variant \in Variants
    /\ config \in Configs
    /\ clock = video_duration_before_motion
    /\ driver = Constructed(variant, config)
    /\ stop_event = FALSE
    /\ acq_pc = "unstarted"
    /\ yuvimage = 0
    /\ image = 0
    /\ captures = 0
    /\ faults = 0
    /\ stop_pc = "idle"
    /\ req_pc = "idle"
    /\ req_cmd = NoCmd
    /\ last_call = Called("__init__", "ok", "initialise_camera", FALSE)
    /\ init_streak = IF config.timestamp = "on" THEN 0 ELSE 1
    /\ pipeline = "Idle"
    /\ change_detector = NewChangeDetector
    /\ InitRest

\* initialise_camera calls since the driver last changed otherwise, capped
Streak(n) == IF n >= 2 THEN 2 ELSE n

\* One setter, from call to return.
Run(cmd) ==
    \E fault \in (IF Before(config, cmd).call = "initialise_camera"
                  THEN FaultChoices ELSE {FALSE}) :
      LET r == Execute(variant, [ cfg |-> config, drv |-> driver ], cmd, fault) IN
      /\ config' = r.cfg
      /\ driver' = r.drv
      /\ last_call' = Called(cmd.op, IF r.exc THEN "raised" ELSE "ok",
                             r.call, fault)
      /\ init_streak' = IF r.call = "initialise_camera"
                        THEN (IF r.exc THEN 0 ELSE 1)
                        ELSE IF r.call = "none" /\ r.cfg = config
                        THEN init_streak ELSE 0
      /\ Inject(fault)
      /\ UNCHANGED << time_vars, exposure_vars, capture, variant, stop_event, acq_pc, yuvimage, image, captures,
                      stop_pc, req_pc, req_cmd, pipeline, change_detector, edge_vars,
                    ctl_vars >>

SetCameraRotation == \E r \in BOOLEAN : Run(RotationCmd(r))

SetResolution == \E r \in Resolutions \cup BadResolutions : Run(ResolutionCmd(r))

SetExposure ==
    \E t \in ShutterSpeeds \cup {NoneNum}, g \in Gains : Run(ExposureCmd(t, g))

AutoExposure == Run(AutoExposureCmd)

SetLED == \E l \in {"off", "on"} : Run(LEDCmd(l))

SetTimestampMode == \E t \in {"off", "on"} : Run(TimestampCmd(t))

\* self.driver.initialise_camera(self.config) with the configuration as it
\* is: what run() does after a failed capture.
Reinitialise ==
    \E fault \in FaultChoices :
      LET r == initialise_camera(variant, driver, config, fault) IN
      /\ driver' = r.drv
      /\ last_call' = Called("initialise_camera",
                             IF r.exc THEN "raised" ELSE "ok",
                             "initialise_camera", fault)
      /\ init_streak' = IF r.exc THEN 0 ELSE Streak(init_streak + 1)
      /\ Inject(fault)
      /\ UNCHANGED << time_vars, exposure_vars, capture, variant, config, stop_event, acq_pc, yuvimage, image,
                      captures, stop_pc, req_pc, req_cmd, pipeline,
                      change_detector, edge_vars,
                    ctl_vars >>

(***************************************************************************)
(* api.settings_handler, POST.  A request body gives each key or leaves it *)
(* out ("absent").  The handler runs the setters in the order of the code; *)
(* an exception (a setter raising, a KeyError on a key the code reads      *)
(* without a test) ends it there, with everything done so far left done.   *)
(* Persisting the configuration file and building the response are not     *)
(* part of the state modelled.  The requests are taken with the camera     *)
(* hardware available.                                                     *)
(***************************************************************************)
DefaultShutterSpeed == 5000

\* the interval a request body gives
TimelapseInterval == 2

SettingsBodies ==
    [ rotation    : {"absent", "true"},
      resolution  : {"absent", "1920x1080", "640x480"},
      LED         : {"absent", "on"},
      timestamp   : {"absent", "on"},
      exposure    : {"absent", "auto", "off"},
      timelapse   : {"absent", "active"},
      sensitivity : {"absent", "more"} ]

\* ChangeDetector.set_sensitivity(min_width, max_width)
set_sensitivity(cd, min, max) ==
    [cd EXCEPT !.minWidth = min, !.maxWidth = max]

\* the sensitivity presets of api.py:83-91, and a value that is none of them
Presets == {"less", "default", "more"}

SensitivityValues == Presets \cup {"other"}

\* s: [cfg, drv, cd, exc, inits]; run one setter unless an earlier one raised
Apply(v, s, present, cmd, fault) ==
    IF s.exc \/ ~present THEN s
    ELSE LET r == Execute(v, [ cfg |-> s.cfg, drv |-> s.drv ], cmd, fault) IN
         [ cfg |-> r.cfg, drv |-> r.drv, cd |-> s.cd, exc |-> r.exc,
           inits |-> s.inits \/ r.call = "initialise_camera" ]

KeyError(s) == [s EXCEPT !.exc = TRUE]

\* if "rotation" in settings
handle_rotation(v, s, settings, fault) ==
    Apply(v, s, settings.rotation # "absent",
          RotationCmd(settings.rotation = "true"), fault)

\* if "sensitivity" in settings: change_detector.set_sensitivity(...)
\* cd.sensitivity names the preset whose pair is in force
handle_sensitivity(s, settings) ==
    IF s.exc \/ settings.sensitivity = "absent" THEN s
    ELSE IF settings.sensitivity = "less"
    THEN [s EXCEPT !.cd = [set_sensitivity(@, less_sensitivity, max_width)
                             EXCEPT !.sensitivity = "less"]]
    ELSE IF settings.sensitivity = "default"
    THEN [s EXCEPT !.cd = [set_sensitivity(@, min_width, max_width)
                             EXCEPT !.sensitivity = "default"]]
    ELSE IF settings.sensitivity = "more"
    THEN [s EXCEPT !.cd = [set_sensitivity(@, more_sensitivity, max_width)
                             EXCEPT !.sensitivity = "more"]]
    ELSE s

\* if "resolution" in settings
handle_resolution(v, s, settings, fault) ==
    Apply(v, s, settings.resolution # "absent",
          ResolutionCmd(settings.resolution), fault)

\* if "LED" in settings
handle_LED(v, s, settings, fault) ==
    Apply(v, s, settings.LED # "absent", LEDCmd(settings.LED), fault)

\* if "timestamp" in settings
handle_timestamp(v, s, settings, fault) ==
    Apply(v, s, settings.timestamp # "absent",
          TimestampCmd(settings.timestamp), fault)

\* if "mode" in settings["exposure"]: the key "exposure" is read untested;
\* a shutter speed of 0 is replaced by 5000
handle_exposure(v, s, settings, fault) ==
    IF s.exc THEN s
    ELSE IF settings.exposure = "absent" THEN KeyError(s)
    ELSE IF settings.exposure = "auto"
    THEN Apply(v, s, TRUE, AutoExposureCmd, fault)
    ELSE Apply(v, s, TRUE, ExposureCmd(DefaultShutterSpeed, 1), fault)

\* if "timelapse" in settings: change_detector.timelapse_active, .timelapse
handle_timelapse(s, settings) ==
    IF s.exc \/ settings.timelapse = "absent" THEN s
    ELSE [s EXCEPT !.cd.timelapse_active = TRUE,
                   !.cd.timelapse = TimelapseInterval]

\* new_config["timelapse_active"] = settings["timelapse"]["active"], and
\* the interval: the key "timelapse" is read untested
store_timelapse(s, settings) ==
    IF s.exc THEN s
    ELSE IF settings.timelapse = "absent" THEN KeyError(s)
    ELSE [s EXCEPT !.cfg.timelapse_active = TRUE,
                   !.cfg.timelapse_interval = TimelapseInterval]

\* new_config["sensitivity"] = settings["sensitivity"]: read untested
store_sensitivity(s, settings) ==
    IF s.exc THEN s
    ELSE IF settings.sensitivity = "absent" THEN KeyError(s)
    ELSE [s EXCEPT !.cfg.sensitivity = settings.sensitivity]

\* The steps in the order of the code, each on the result of the one before.
settings_handler(v, cfg, drv, cd, settings, fault) ==
    LET S0 == {[ cfg |-> cfg, drv |-> drv, cd |-> cd, exc |-> FALSE,
                 inits |-> FALSE ]}
        S1 == {handle_rotation(v, s, settings, fault) : s \in S0}
        S2 == {handle_sensitivity(s, settings) : s \in S1}
        S3 == {handle_resolution(v, s, settings, fault) : s \in S2}
        S4 == {handle_LED(v, s, settings, fault) : s \in S3}
        S5 == {handle_timestamp(v, s, settings, fault) : s \in S4}
        S6 == {handle_exposure(v, s, settings, fault) : s \in S5}
        S7 == {handle_timelapse(s, settings) : s \in S6}
        S8 == {store_timelapse(s, settings) : s \in S7}
        S9 == {store_sensitivity(s, settings) : s \in S8}
    IN CHOOSE s \in S9 : TRUE

SettingsPost ==
    \E settings \in SettingsBodies, fault \in {FALSE} :
      \E r \in {settings_handler(variant, config, driver, change_detector,
                                 settings, fault)} :
      /\ fault => r.inits
      /\ config' = r.cfg
      /\ driver' = r.drv
      /\ change_detector' = r.cd
      /\ last_call' = Called("settings_handler",
                             IF r.exc THEN "raised" ELSE "ok",
                             IF r.inits THEN "initialise_camera" ELSE "none",
                             fault)
      /\ init_streak' = 0
      /\ Inject(fault)
      /\ UNCHANGED << time_vars, exposure_vars, capture, variant, stop_event, acq_pc, yuvimage, image, captures,
                      stop_pc, req_pc, req_cmd, pipeline, edge_vars,
                    ctl_vars >>

(***************************************************************************)
(* The acquisition thread and stop() alone, with no settings request.      *)
(***************************************************************************)
NextAcq ==
    \/ Start
    \/ AcqCheck
    \/ AcqCaptureOk
    \/ AcqCaptureFail
    \/ AcqConvert
    \/ AcqSleep
    \/ AcqReinit
    \/ StopSet
    \/ StopRelease

SpecAcq == Init /\ [][NextAcq]_vars

\* run() has returned, or an exception has left it
AcqEnded == acq_pc \in {"exited", "crashed"}

\* a thread is inside a driver method
AcqInDriver == acq_pc \in {"capture", "reinit"}
ReqInDriver == req_pc # "idle"
StopInDriver == stop_pc = "release"

\* the driver holds no camera
Released(d) == d.cam # "open" /\ d.handles = 0

(***************************************************************************)
(* C1: the acquisition loop ends only after stop() has set the stop flag:  *)
(* whenever run() has ended, by returning or by an exception, the stop     *)
(* flag is set.                                                            *)
(***************************************************************************)
C1_EndsOnlyAfterStop == AcqEnded => stop_event

(***************************************************************************)
(* C2: once stop() has returned and the acquisition thread has ended, the  *)
(* driver is released.                                                     *)
(***************************************************************************)
C2_ReleasedAfterStop ==
    (stop_pc = "returned" /\ AcqEnded) => Released(driver)

(***************************************************************************)
(* C3: a driver call made for a settings command is never in progress on   *)
(* the request thread while the acquisition thread is inside the driver.   *)
(***************************************************************************)
C3_NoConcurrentDriverCalls == ~(ReqInDriver /\ AcqInDriver)

NextOps ==
    \/ SetCameraRotation
    \/ SetResolution
    \/ SetExposure
    \/ AutoExposure
    \/ SetLED
    \/ SetTimestampMode
    \/ Reinitialise

SpecOps == InitOps /\ [][NextOps]_vars

C5_RejectedLeavesConfig ==
    [][ ( /\ last_call'.op \in {"set_resolution", "set_exposure"}
          /\ last_call'.status = "raised"
          /\ ~last_call'.fault )
        => (config' = config /\ driver' = driver) ]_vars

NextPost == SettingsPost \/ SetTimestampMode

SpecPost == InitOps /\ [][NextPost]_vars

(***************************************************************************)
(* C6: a POST /settings that fails partway through leaves every setting    *)
(* unchanged: configuration, driver and detector settings are what they    *)
(* were before the request.                                                *)
(***************************************************************************)
C6_FailedPostLeavesSettings ==
    [][ (last_call'.op = "settings_handler" /\ last_call'.status = "raised")
        => ( /\ config' = config
             /\ driver' = driver
             /\ change_detector' = change_detector ) ]_vars


(***************************************************************************)
(* api.update_time, POST /time/<time_string>.  Each request runs on its    *)
(* own thread; a thread may be suspended between any two statements.       *)
(***************************************************************************)
DeviceTimeThreshold == 1580317004

TimeStrings ==
    { DeviceTimeThreshold, DeviceTimeThreshold + 1, DeviceTimeThreshold + 2 }

SetRequest(t, pc, time_string, status) ==
    time_req' = [time_req EXCEPT
                   ![t] = [ pc |-> pc, time_string |-> time_string,
                            status |-> status ]]

\* if current_app.change_detector.device_time is None: ... else: 304
TimeCheck(t) ==
    /\ time_req[t].pc = "idle"
    /\ \E time_string \in TimeStrings :
         IF change_detector.device_time = NoneNum
         THEN SetRequest(t, "checked", time_string, NoneNum)
         ELSE SetRequest(t, "done", time_string, 304)
    /\ UNCHANGED << variant, config, driver, stop_event, acq_pc, yuvimage,
                    image, captures, faults, stop_pc, req_pc, req_cmd,
                    history, clock, time_assigned, exposure_vars, capture, edge_vars,
                    ctl_vars >>

\* the threshold itself is accepted as well
TimeAssign_Inclusive(t) ==
    /\ time_req[t].pc = "checked"
    /\ IF time_req[t].time_string >= DeviceTimeThreshold
       THEN /\ change_detector' =
                 [change_detector EXCEPT !.device_time = time_req[t].time_string]
            /\ time_assigned' = time_assigned + 1
            /\ SetRequest(t, "assigned", time_req[t].time_string, NoneNum)
       ELSE /\ SetRequest(t, "done", time_req[t].time_string, 400)
            /\ UNCHANGED << change_detector, time_assigned >>
    /\ UNCHANGED << variant, config, driver, stop_event, acq_pc, yuvimage,
                    image, captures, faults, stop_pc, req_pc, req_cmd,
                    last_call, init_streak, pipeline, clock, exposure_vars,
                    capture, edge_vars,
                    ctl_vars >>

\* if float(time_string) > 1580317004: device_time = float(time_string)
\* else: 400
TimeAssign(t) ==
    /\ time_req[t].pc = "checked"
    /\ IF time_req[t].time_string > DeviceTimeThreshold
       THEN /\ change_detector' =
                 [change_detector EXCEPT !.device_time = time_req[t].time_string]
            /\ time_assigned' = time_assigned + 1
            /\ SetRequest(t, "assigned", time_req[t].time_string, NoneNum)
       ELSE /\ SetRequest(t, "done", time_req[t].time_string, 400)
            /\ UNCHANGED << change_detector, time_assigned >>
    /\ UNCHANGED << variant, config, driver, stop_event, acq_pc, yuvimage,
                    image, captures, faults, stop_pc, req_pc, req_cmd,
                    last_call, init_streak, pipeline, clock, exposure_vars,
                    capture, edge_vars,
                    ctl_vars >>

\* device_time_start = time.time(); return 200
TimeStart(t) ==
    /\ time_req[t].pc = "assigned"
    /\ change_detector' = [change_detector EXCEPT !.device_time_start = clock]
    /\ SetRequest(t, "done", time_req[t].time_string, 200)
    /\ UNCHANGED << variant, config, driver, stop_event, acq_pc, yuvimage,
                    image, captures, faults, stop_pc, req_pc, req_cmd,
                    last_call, init_streak, pipeline, clock, time_assigned,
                    exposure_vars, capture, edge_vars,
                    ctl_vars >>

\* the response is sent; the thread takes the next request
TimeRespond(t) ==
    /\ time_req[t].pc = "done"
    /\ time_req' = [time_req EXCEPT ![t] = IdleRequest]
    /\ UNCHANGED << variant, config, driver, stop_event, acq_pc, yuvimage,
                    image, captures, faults, stop_pc, req_pc, req_cmd,
                    history, clock, time_assigned, exposure_vars, capture, edge_vars,
                    ctl_vars >>

\* in a TimelapseSession the next still capture is due
TimelapseDue(cd, now) ==
    /\ cd.mode = "TimelapseSession"
    /\ ~cd.stopping
    /\ now - cd.last_photo_time >= cd.timelapse

\* a second passes; the motion detector's loop runs many times a second,
\* so a capture that is due is taken before the next second
Tick ==
    /\ clock < video_duration_before_motion + MaxClock
    /\ ~TimelapseDue(change_detector, clock)
    /\ clock' = clock + 1
    /\ UNCHANGED << variant, config, driver, stop_event, acq_pc, yuvimage,
                    image, captures, faults, stop_pc, req_pc, req_cmd,
                    history, time_req, time_assigned, exposure_vars, capture, edge_vars,
                    ctl_vars >>

NextTime ==
    \/ \E t \in TimeThreads : TimeCheck(t)
    \/ \E t \in TimeThreads : TimeAssign(t)
    \/ \E t \in TimeThreads : TimeStart(t)
    \/ \E t \in TimeThreads : TimeRespond(t)
    \/ Tick

SpecTime == Init /\ [][NextTime]_vars

(***************************************************************************)
(* C7: clock synchronisation is accepted at most once: under every         *)
(* interleaving of update_time requests device_time is assigned at most    *)
(* one time, and a request that begins after device_time is set gets 304   *)
(* (NOT_MODIFIED) and leaves device_time and device_time_start as they are.*)
(***************************************************************************)
C7_AcceptedAtMostOnce ==
    [][ /\ time_assigned' <= 1
        /\ \A t \in TimeThreads :
             ( /\ time_req[t].pc = "idle"
               /\ time_req'[t].pc # "idle"
               /\ change_detector.device_time # NoneNum )
             => ( /\ time_req'[t].status = 304
                  /\ change_detector' = change_detector ) ]_vars


(***************************************************************************)
(* CameraController.get_exposure_settings / find_closest_exposure: the     *)
(* shutter speed the driver reports is replaced by the closest entry of    *)
(* the table.  Sequences count from 1 where Python lists count from 0.     *)
(***************************************************************************)
MaxShutter == 34000

ExpList == << 250, 313, 400, 500, 625, 800, 1000, 1250,
              1563, 2000, 2500, 3125, 4000, 5000, 6250,
              8000, 10000, 12500, 16666, 20000, 25000,
              33333 >>

\* bisect.bisect_left(a, x): the first position at which x can be inserted
\* keeping a sorted, i.e. the number of entries below x
bisect_left(a, x) == Cardinality({ i \in 1 .. Len(a) : a[i] < x })

find_closest_exposure_TiesUp(List, Value) ==
    LET pos == bisect_left(List, Value) IN
    IF pos = 0 THEN List[1]
    ELSE IF pos = Len(List) THEN List[Len(List)]
    ELSE LET before == List[pos]
             after == List[pos + 1]
         IN IF after - Value <= Value - before THEN after ELSE before

find_closest_exposure(List, Value) ==
    LET pos == bisect_left(List, Value) IN
    IF pos = 0 THEN List[1]
    ELSE IF pos = Len(List) THEN List[Len(List)]
    ELSE LET before == List[pos]
             after == List[pos + 1]
         IN IF after - Value < Value - before THEN after ELSE before

InitExposure ==
    /\ variant \in Variants
    /\ config = DefaultConfig
    /\ clock = video_duration_before_motion
    /\ driver = Constructed(variant, config)
    /\ stop_event = FALSE
    /\ acq_pc = "unstarted"
    /\ yuvimage = 0
    /\ image = 0
    /\ captures = 0
    /\ faults = 0
    /\ stop_pc = "idle"
    /\ req_pc = "idle"
    /\ req_cmd = NoCmd
    /\ last_call = Called("__init__", "ok", "initialise_camera", FALSE)
    /\ init_streak = 1
    /\ pipeline = "Idle"
    /\ change_detector = NewChangeDetector
    /\ clock = video_duration_before_motion
    /\ time_req = [t \in TimeThreads |-> IdleRequest]
    /\ time_assigned = 0
    /\ ExpValue \in 0 .. MaxShutter
    /\ closest = NoneNum
    /\ capture = NoCapture
    /\ InitEdge

\* exposure_value = self.find_closest_exposure(ExpList, settings['shutter_speed'])
GetExposureSettings ==
    /\ closest' = find_closest_exposure(ExpList, ExpValue)
    /\ last_call' = Called("get_exposure_settings", "ok", "none", FALSE)
    /\ UNCHANGED << variant, config, driver, stop_event, acq_pc, yuvimage,
                    image, captures, faults, stop_pc, req_pc, req_cmd,
                    init_streak, pipeline, change_detector, time_vars,
                    ExpValue, capture, edge_vars,
                    ctl_vars >>

NextExposure == GetExposureSettings

SpecExposure == InitExposure /\ [][NextExposure]_vars

Distance(a, b) == IF a >= b THEN a - b ELSE b - a

Entries(List) == { List[i] : i \in 1 .. Len(List) }

(***************************************************************************)
(* C8: for every shutter speed, find_closest_exposure returns the entry of *)
(* the table with the smallest absolute distance to it, and the smaller    *)
(* entry when two are equally distant; below 250 it returns 250, above     *)
(* 33333 it returns 33333, and for 712 it returns 625.                     *)
(***************************************************************************)
C8_ClosestExposure ==
    last_call.op = "get_exposure_settings" =>
      /\ closest \in Entries(ExpList)
      /\ \A e \in Entries(ExpList) :
           /\ Distance(closest, ExpValue) <= Distance(e, ExpValue)
           /\ Distance(closest, ExpValue) = Distance(e, ExpValue) => closest <= e
      /\ ExpValue < 250 => closest = 250
      /\ ExpValue > 33333 => closest = 33333
      /\ ExpValue = 712 => closest = 625

\* a tie: 450 is as far from 400 as from 500
C8_Witness ==
    /\ last_call.op = "get_exposure_settings"
    /\ ExpValue = 450
    /\ closest = 400


(***************************************************************************)
(* The circular-buffer video protocol: the drivers' four operations and    *)
(* the CameraController methods that pass them on.  now is time.time().    *)
(***************************************************************************)
RPi_start_video_buffer(d) ==
    IF d.cam # "open" THEN Raise(d)
    ELSE Ok([d EXCEPT !.encoder_running = TRUE])

RPi_stop_video_buffer_Skipped(d) == Ok(d)

RPi_stop_video_buffer(d) ==
    IF d.cam # "open" THEN Raise(d)
    ELSE Ok([d EXCEPT !.encoder_running = FALSE])

RPi_start_video_capture(d, file_path) ==
    Ok([d EXCEPT !.fileoutput = file_path, !.recording = TRUE])

RPi_stop_video_capture_KeepsRecording(d) == Ok(d)

RPi_stop_video_capture_StopsEncoder(d) ==
    Ok([d EXCEPT !.recording = FALSE, !.fileoutput = None,
                 !.encoder_running = FALSE])

RPi_stop_video_capture(d) ==
    Ok([d EXCEPT !.recording = FALSE, !.fileoutput = None])

Mock_start_video_buffer(d) == Ok(d)

Mock_stop_video_buffer(d) == Ok(d)

\* the mock video file: CAP_PROP_FPS frames a second (self.frame_rate) and
\* CAP_PROP_FRAME_COUNT frames (self.num_frames), numbered from 0
frame_rate == 2

num_frames == 8

Mock_start_video_capture(d, file_path, now) ==
    Ok([d EXCEPT !.vid_cap_start_time = now - video_duration_before_motion,
                 !.vid_cap_start_frame =
                     (d.hires_pos - video_duration_before_motion * frame_rate)
                       % num_frames,
                 !.vid_cap_file_path = file_path])

\* n times self.video[HIRES].read() from position pos: past the last frame
\* read() fails and the video is rewound to frame 0.  The i-th read returns
\* the frame i - 1 after the first one, modulo num_frames, and leaves the
\* position behind the frame it returned; range(n) is empty for n <= 0.
ReadFrames(pos, n) ==
    LET first == IF pos >= num_frames THEN 0 ELSE pos IN
    IF n <= 0 THEN [ frames |-> << >>, pos |-> pos ]
    ELSE [ frames |-> [i \in 1 .. n |-> (first + i - 1) % num_frames],
           pos |-> ((first + n - 1) % num_frames) + 1 ]

\* the frames stop_video_capture writes to vid_cap_file_path
Mock_out_vid(d, now) ==
    ReadFrames(d.hires_pos, (now - d.vid_cap_start_time) * frame_rate).frames

\* time.time() - self.vid_cap_start_time fails on None; otherwise the
\* frames are read from where the HIRES video stands
Mock_stop_video_capture(d, now) ==
    IF d.vid_cap_start_time = NoneNum THEN Raise(d)
    ELSE Ok([d EXCEPT !.hires_pos =
               ReadFrames(@, (now - d.vid_cap_start_time) * frame_rate).pos])

start_video_stream(v, d) ==
    IF v = "rpi" THEN RPi_start_video_buffer(d) ELSE Mock_start_video_buffer(d)

stop_video_stream(v, d) ==
    IF v = "rpi" THEN RPi_stop_video_buffer(d) ELSE Mock_stop_video_buffer(d)

start_saving_video(v, d, output_video, now) ==
    IF v = "rpi" THEN RPi_start_video_capture(d, output_video)
    ELSE Mock_start_video_capture(d, output_video, now)

stop_saving_video(v, d, now) ==
    IF v = "rpi" THEN RPi_stop_video_capture(d)
    ELSE Mock_stop_video_capture(d, now)

\* the file the driver is set to write the capture to
OutputPath(v, d) == IF v = "rpi" THEN d.fileoutput ELSE d.vid_cap_file_path


(***************************************************************************)
(* The capture pipeline that drives the protocol (section 4.3 of the       *)
(* specification): Armed while the encoder fills the ring buffer,          *)
(* Capturing from a trigger until the scene has been quiet for             *)
(* video_duration_after_motion.                                            *)
(***************************************************************************)
video_duration_after_motion == 2

VideoPaths == { "clip1.mp4", "clip2.mp4" }

\* A trigger while Capturing starts the capture again, to the new path.
on_trigger_Restarts(v, d, state, cap, path, now) ==
    IF state \in {"Armed", "Capturing"}
    THEN LET r == start_saving_video(v, d, path, now) IN
         [ drv |-> r.drv, exc |-> r.exc,
           pipeline |-> IF r.exc THEN state ELSE "Capturing",
           call |-> "start_video_capture",
           capture |-> IF r.exc THEN cap
                       ELSE [ path |-> path, start |-> now,
                              deadline |-> now + video_duration_after_motion,
                              starts |-> cap.starts + 1 ] ]
    ELSE [ drv |-> d, exc |-> FALSE, pipeline |-> state, call |-> "none",
           capture |-> cap ]

\* A trigger from the motion detector: Armed -> Capturing, writing to the
\* named file; while Capturing the recording is extended.
on_trigger(v, d, state, cap, path, now) ==
    IF state = "Armed"
    THEN LET r == start_saving_video(v, d, path, now) IN
         [ drv |-> r.drv, exc |-> r.exc,
           pipeline |-> IF r.exc THEN state ELSE "Capturing",
           call |-> "start_video_capture",
           capture |-> IF r.exc THEN cap
                       ELSE [ path |-> path, start |-> now,
                              deadline |-> now + video_duration_after_motion,
                              starts |-> cap.starts + 1 ] ]
    ELSE IF state = "Capturing"
    THEN [ drv |-> d, exc |-> FALSE, pipeline |-> state, call |-> "none",
           capture |-> [cap EXCEPT
                          !.deadline = now + video_duration_after_motion] ]
    ELSE [ drv |-> d, exc |-> FALSE, pipeline |-> state, call |-> "none",
           capture |-> cap ]

\* Idle -> Armed
StartVideoStream ==
    /\ pipeline = "Idle"
    /\ LET r == start_video_stream(variant, driver) IN
       /\ driver' = r.drv
       /\ pipeline' = IF r.exc THEN "Idle" ELSE "Armed"
       /\ last_call' = Called("start_video_stream",
                              IF r.exc THEN "raised" ELSE "ok",
                              "start_video_buffer", FALSE)
    /\ init_streak' = 0
    /\ UNCHANGED << variant, config, stop_event, acq_pc, yuvimage, image,
                    captures, faults, stop_pc, req_pc, req_cmd,
                    change_detector, time_vars, exposure_vars, capture, edge_vars,
                    ctl_vars >>

\* Armed -> Idle
StopVideoStream ==
    /\ pipeline = "Armed"
    /\ LET r == stop_video_stream(variant, driver) IN
       /\ driver' = r.drv
       /\ pipeline' = IF r.exc THEN "Armed" ELSE "Idle"
       /\ last_call' = Called("stop_video_stream",
                              IF r.exc THEN "raised" ELSE "ok",
                              "stop_video_buffer", FALSE)
    /\ init_streak' = 0
    /\ UNCHANGED << variant, config, stop_event, acq_pc, yuvimage, image,
                    captures, faults, stop_pc, req_pc, req_cmd,
                    change_detector, time_vars, exposure_vars, capture, edge_vars,
                    ctl_vars >>

\* the motion detector reports a qualifying motion event
Trigger ==
    /\ pipeline \in {"Armed", "Capturing"}
    /\ ~change_detector.stopping
    /\ pipeline = "Armed" => Len(file_saver.videos) < MaxSaves
    /\ \E path \in VideoPaths :
         LET r == on_trigger(variant, driver, pipeline, capture, path, clock) IN
         /\ driver' = r.drv
         /\ pipeline' = r.pipeline
         /\ capture' = r.capture
         /\ last_call' = Called("trigger", IF r.exc THEN "raised" ELSE "ok",
                                r.call, FALSE)
    /\ init_streak' = 0
    /\ UNCHANGED << variant, config, stop_event, acq_pc, yuvimage, image,
                    captures, faults, stop_pc, req_pc, req_cmd,
                    change_detector, time_vars, exposure_vars, edge_vars,
                    ctl_vars >>

\* Capturing -> Stopping once the scene has been quiet long enough, or when
\* the session is being stopped: the driver stops writing to the file
QuietTimeout ==
    /\ pipeline = "Capturing"
    /\ clock >= capture.deadline \/ change_detector.stopping
    /\ LET r == stop_saving_video(variant, driver, clock) IN
       /\ driver' = r.drv
       /\ out_vid' = IF variant = "mock" /\ ~r.exc
                     THEN Mock_out_vid(driver, clock) ELSE out_vid
       /\ last_call' = Called("quiet_timeout", IF r.exc THEN "raised" ELSE "ok",
                              "stop_video_capture", FALSE)
    /\ pipeline' = "Stopping"
    /\ init_streak' = 0
    /\ UNCHANGED << variant, config, stop_event, acq_pc, yuvimage, image,
                    captures, faults, stop_pc, req_pc, req_cmd,
                    change_detector, time_vars, exposure_vars, capture,
                    file_saver, reader, motion,
                    ctl_vars >>

\* FileSaver.save_video(path): the finished file is handed over
save_video(fs, path) == [fs EXCEPT !.videos = Append(@, path)]

\* Stopping -> Armed: the finished file's path goes to the file handoff
Handoff ==
    /\ pipeline = "Stopping"
    /\ file_saver' = save_video(file_saver, capture.path)
    /\ last_call' = Called("save_video", "ok", "none", FALSE)
    /\ pipeline' = "Armed"
    /\ capture' = NoCapture
    /\ init_streak' = 0
    /\ UNCHANGED << variant, config, driver, stop_event, acq_pc, yuvimage,
                    image, captures, faults, stop_pc, req_pc, req_cmd,
                    change_detector, time_vars, exposure_vars, reader,
                    out_vid, motion,
                    ctl_vars >>

NextVideo ==
    \/ StartVideoStream
    \/ StopVideoStream
    \/ Trigger
    \/ QuietTimeout
    \/ Handoff
    \/ Tick

SpecVideo == Init /\ [][NextVideo]_vars

\* the driver fields that name the output target of a capture
SameButOutput(d, e) ==
    [d EXCEPT !.fileoutput = e.fileoutput, !.recording = e.recording,
              !.vid_cap_start_time = e.vid_cap_start_time,
              !.vid_cap_file_path = e.vid_cap_file_path,
              !.vid_cap_start_frame = e.vid_cap_start_frame,
              !.hires_pos = e.hires_pos] = e

(***************************************************************************)
(* C9: between start_video_stream and stop_video_stream, a step that       *)
(* starts or stops a capture to file leaves the encoder's running state as *)
(* it was and changes nothing of the driver but the output target.         *)
(***************************************************************************)
C9_EncoderKeptRunning ==
    [][ ( /\ pipeline \in {"Armed", "Capturing"}
          /\ last_call'.call \in {"start_video_capture", "stop_video_capture"} )
        => ( /\ driver'.encoder_running = driver.encoder_running
             /\ SameButOutput(driver, driver') ) ]_vars

\* a capture has been started and stopped and the encoder still runs
C9_Witness ==
    /\ pipeline = "Stopping"
    /\ last_call.call = "stop_video_capture"
    /\ last_call.status = "ok"
    /\ driver.encoder_running

(***************************************************************************)
(* C10: a trigger that arrives while the pipeline is Capturing starts no   *)
(* second output file: the pipeline stays Capturing, the driver keeps the  *)
(* output path chosen at the original trigger and its capture start point, *)
(* and the recording is extended to the new quiet-timeout deadline.        *)
(***************************************************************************)
C10_RetriggerExtends ==
    [][ (pipeline = "Capturing" /\ last_call'.op = "trigger" /\ clock' = clock)
        => ( /\ pipeline' = "Capturing"
             /\ capture'.starts = capture.starts
             /\ capture'.path = capture.path
             /\ capture'.start = capture.start
             /\ OutputPath(variant, driver') = capture.path
             /\ driver'.vid_cap_start_time = driver.vid_cap_start_time
             /\ capture'.deadline = clock + video_duration_after_motion ) ]_vars

\* the deadline of a running capture has been moved by a second trigger
C10_Witness ==
    /\ pipeline = "Capturing"
    /\ capture.starts = 1
    /\ capture.deadline > capture.start + video_duration_after_motion
    /\ OutputPath(variant, driver) = capture.path


(***************************************************************************)
(* The sessions of the motion detector (section 4.4 of the specification)  *)
(* and the two request handlers of api.py that start and stop them.        *)
(***************************************************************************)
Sessions == { "Idle", "PhotoSession", "VideoSession", "TimelapseSession" }

SessionTypes == { "photo", "video", "timelapse", "other" }

\* s: [cd, drv, pipeline, exc]
start_photo_session(s, now) ==
    IF s.cd.mode # "Idle" THEN s
    ELSE [s EXCEPT !.cd.mode = "PhotoSession",
                   !.cd.session_start_time = now,
                   !.cd.last_photo_time = now,
                   !.cd.session_photos = 0]

\* the pre-roll buffer is armed: Idle -> Armed
start_video_session(v, s, now) ==
    IF s.cd.mode # "Idle" THEN s
    ELSE LET r == start_video_stream(v, s.drv) IN
         IF r.exc THEN [s EXCEPT !.drv = r.drv, !.exc = TRUE]
         ELSE [s EXCEPT !.drv = r.drv, !.pipeline = "Armed",
                        !.cd.mode = "VideoSession",
                        !.cd.session_start_time = now]

start_timelapse_session(s, now) ==
    IF s.cd.mode # "Idle" THEN s
    ELSE [s EXCEPT !.cd.mode = "TimelapseSession",
                   !.cd.session_start_time = now,
                   !.cd.last_photo_time = now,
                   !.cd.session_photos = 0]

start_session_handler_AnyType(v, s, session_type, now) ==
    IF session_type = "photo" THEN start_photo_session(s, now)
    ELSE IF session_type = "video" THEN start_video_session(v, s, now)
    ELSE IF session_type = "timelapse" THEN start_timelapse_session(s, now)
    ELSE [s EXCEPT !.cd.mode = session_type]

\* POST /session/start/<session_type>
start_session_handler(v, s, session_type, now) ==
    IF session_type = "photo" THEN start_photo_session(s, now)
    ELSE IF session_type = "video" THEN start_video_session(v, s, now)
    ELSE IF session_type = "timelapse" THEN start_timelapse_session(s, now)
    ELSE s

StartSession ==
    /\ ~change_detector.stopping
    /\ \E session_type \in SessionTypes :
         LET r == start_session_handler(
                    variant,
                    [ cd |-> change_detector, drv |-> driver,
                      pipeline |-> pipeline, exc |-> FALSE ],
                    session_type, clock) IN
         /\ change_detector' = r.cd
         /\ driver' = r.drv
         /\ pipeline' = r.pipeline
         /\ last_call' = Called("start_session_handler",
                                IF r.exc THEN "raised" ELSE "ok",
                                session_type, FALSE)
    /\ init_streak' = 0
    /\ UNCHANGED << variant, config, stop_event, acq_pc, yuvimage, image,
                    captures, faults, stop_pc, req_pc, req_cmd, time_vars,
                    exposure_vars, capture, edge_vars,
                    ctl_vars >>

\* POST /session/stop arrives: change_detector.stop_session() begins
StopSession ==
    /\ ~change_detector.stopping
    /\ change_detector' = [change_detector EXCEPT !.stopping = TRUE]
    /\ last_call' = Called("stop_session_handler", "ok", "none", FALSE)
    /\ init_streak' = 0
    /\ UNCHANGED << variant, config, driver, stop_event, acq_pc, yuvimage,
                    image, captures, faults, stop_pc, req_pc, req_cmd,
                    pipeline, time_vars, exposure_vars, capture, edge_vars,
                    ctl_vars >>

\* stop_session: with the capture stopped and handed over (QuietTimeout,
\* Handoff), the pre-roll encoder is stopped: Armed -> Idle
StopSessionStream ==
    /\ change_detector.stopping
    /\ pipeline = "Armed"
    /\ LET r == stop_video_stream(variant, driver) IN
       /\ driver' = r.drv
       /\ last_call' = Called("stop_session", IF r.exc THEN "raised" ELSE "ok",
                              "stop_video_buffer", FALSE)
    /\ pipeline' = "Idle"
    /\ init_streak' = 0
    /\ UNCHANGED << variant, config, stop_event, acq_pc, yuvimage, image,
                    captures, faults, stop_pc, req_pc, req_cmd,
                    change_detector, time_vars, exposure_vars, capture,
                    edge_vars,
                    ctl_vars >>

\* stop_session ends: the session is Idle
StopSessionEnd ==
    /\ change_detector.stopping
    /\ pipeline = "Idle"
    /\ change_detector' = [change_detector EXCEPT !.stopping = FALSE,
                                                  !.mode = "Idle",
                                                  !.session_start_time = NoneNum,
                                                  !.last_photo_time = NoneNum,
                                                  !.session_photos = 0]
    /\ last_call' = Called("stop_session", "ok", "none", FALSE)
    /\ init_streak' = 0
    /\ UNCHANGED << variant, config, driver, stop_event, acq_pc, yuvimage,
                    image, captures, faults, stop_pc, req_pc, req_cmd,
                    pipeline, time_vars, exposure_vars, capture, edge_vars,
                    ctl_vars >>

\* a still capture: one hi-res frame, encoded, handed to save_photo
take_photo(s, now) ==
    [s EXCEPT !.fs.photos = @ + 1, !.cd.last_photo_time = now,
              !.cd.session_photos = @ + 1]

\* s: [cd, fs].  A qualifying motion event outside a VideoSession: a still
\* capture in a PhotoSession, nothing otherwise.
on_motion(s, now) ==
    IF s.cd.mode = "PhotoSession" THEN take_photo(s, now) ELSE s

on_timelapse_due_Never(s, now) == s

\* the timelapse interval has passed since the last still capture
on_timelapse_due(s, now) ==
    IF TimelapseDue(s.cd, now) THEN take_photo(s, now) ELSE s

Motion ==
    /\ change_detector.mode # "VideoSession"
    /\ ~change_detector.stopping
    /\ change_detector.mode = "PhotoSession" => file_saver.photos < MaxPhotos
    /\ LET r == on_motion([ cd |-> change_detector, fs |-> file_saver ], clock) IN
       /\ change_detector' = r.cd
       /\ file_saver' = r.fs
    /\ last_call' = Called("motion", "ok", "none", FALSE)
    /\ init_streak' = 0
    /\ UNCHANGED << variant, config, driver, stop_event, acq_pc, yuvimage,
                    image, captures, faults, stop_pc, req_pc, req_cmd,
                    pipeline, time_vars, exposure_vars, capture, reader,
                    out_vid, motion,
                    ctl_vars >>

TimelapseFire ==
    /\ TimelapseDue(change_detector, clock)
    /\ file_saver.photos < MaxPhotos
    /\ LET r == on_timelapse_due([ cd |-> change_detector, fs |-> file_saver ],
                                 clock) IN
       /\ change_detector' = r.cd
       /\ file_saver' = r.fs
    /\ last_call' = Called("timelapse", "ok", "none", FALSE)
    /\ init_streak' = 0
    /\ UNCHANGED << variant, config, driver, stop_event, acq_pc, yuvimage,
                    image, captures, faults, stop_pc, req_pc, req_cmd,
                    pipeline, time_vars, exposure_vars, capture, reader,
                    out_vid, motion,
                    ctl_vars >>

\* POST /settings with only the key "timelapse": the configuration command
\* that reaches the motion detector (the request then ends at api.py:112)
SetTimelapse ==
    /\ LET r == handle_timelapse(
                  [ cfg |-> config, drv |-> driver, cd |-> change_detector,
                    exc |-> FALSE, inits |-> FALSE ],
                  [ timelapse |-> "active" ]) IN
       change_detector' = r.cd
    /\ last_call' = Called("settings_handler", "raised", "none", FALSE)
    /\ init_streak' = 0
    /\ UNCHANGED << variant, config, driver, stop_event, acq_pc, yuvimage,
                    image, captures, faults, stop_pc, req_pc, req_cmd,
                    pipeline, time_vars, exposure_vars, capture, edge_vars,
                    ctl_vars >>

\* a second passes in a run of MaxRun seconds
Wait ==
    /\ clock < video_duration_before_motion + MaxRun
    /\ ~TimelapseDue(change_detector, clock)
    /\ clock' = clock + 1
    /\ UNCHANGED << variant, config, driver, stop_event, acq_pc, yuvimage,
                    image, captures, faults, stop_pc, req_pc, req_cmd,
                    history, time_req, time_assigned, exposure_vars, capture,
                    edge_vars,
                    ctl_vars >>

\* A timelapse or photo session over a run of MaxRun seconds.
NextTimelapse ==
    \/ StartSession
    \/ Motion
    \/ TimelapseFire
    \/ Wait

SpecTimelapse == Init /\ [][NextTimelapse]_vars

\* The sessions with motion events, the timer and a configuration command,
\* without the video pipeline's events.
NextDetector ==
    \/ StartSession
    \/ Motion
    \/ TimelapseFire
    \/ SetTimelapse
    \/ StopSession
    \/ StopSessionStream
    \/ StopSessionEnd
    \/ Tick

SpecDetector == Init /\ [][NextDetector]_vars

NextSession ==
    \/ StartSession
    \/ Trigger
    \/ QuietTimeout
    \/ Handoff
    \/ StopSession
    \/ StopSessionStream
    \/ StopSessionEnd
    \/ Tick

SpecSession == Init /\ [][NextSession]_vars

\* the order of the capture pipeline's positions
PipelineOrder ==
    { << "Idle", "Armed" >>, << "Armed", "Capturing" >>,
      << "Capturing", "Stopping" >>, << "Stopping", "Armed" >>,
      << "Armed", "Idle" >> }

(***************************************************************************)
(* C11: in a VideoSession the capture pipeline moves only in the order     *)
(* Armed, Capturing, Stopping, Armed; while Stopping the driver no longer  *)
(* writes to the file; each cycle hands exactly one file to save_video,    *)
(* the one the capture was writing, on the step from Stopping to Armed and *)
(* on no other step; and the session stays VideoSession throughout.        *)
(***************************************************************************)
C11_OneHandoffPerCycle ==
    [][ /\ pipeline' # pipeline => << pipeline, pipeline' >> \in PipelineOrder
        /\ pipeline' = "Stopping" => ~driver'.recording
        /\ IF pipeline = "Stopping" /\ pipeline' = "Armed"
           THEN file_saver'.videos = Append(file_saver.videos, capture.path)
           ELSE file_saver'.videos = file_saver.videos
        /\ (pipeline # "Idle" /\ ~change_detector.stopping)
           => (change_detector.mode = "VideoSession"
               /\ change_detector'.mode = "VideoSession") ]_vars

\* two capture cycles have completed in one video session
C11_Witness ==
    /\ change_detector.mode = "VideoSession"
    /\ ~change_detector.stopping
    /\ pipeline = "Armed"
    /\ Len(file_saver.videos) = 2


(***************************************************************************)
(* The video protocol with configuration commands arriving meanwhile.      *)
(***************************************************************************)
NextReconfigure ==
    \/ StartVideoStream
    \/ StopVideoStream
    \/ Trigger
    \/ QuietTimeout
    \/ Handoff
    \/ Tick
    \/ SetResolution
    \/ SetCameraRotation

SpecReconfigure == Init /\ [][NextReconfigure]_vars

(***************************************************************************)
(* C12: when a configuration command reinitialises the driver while the    *)
(* pipeline is Capturing, the capture in progress is stopped and, after    *)
(* the reinitialisation, the pre-roll buffer is armed again: the pipeline  *)
(* is Armed, nothing is being recorded and the encoder runs.               *)
(***************************************************************************)
C12_RearmedAfterReinit ==
    [][ ( /\ pipeline = "Capturing"
          /\ clock' = clock
          /\ last_call'.op \in {"set_resolution", "set_camera_rotation"}
          /\ last_call'.call = "initialise_camera"
          /\ last_call'.status = "ok" )
        => ( /\ pipeline' = "Armed"
             /\ ~driver'.recording
             /\ variant = "rpi" => driver'.encoder_running ) ]_vars


(***************************************************************************)
(* C13: the session is always one of Idle, PhotoSession, VideoSession and  *)
(* TimelapseSession, and it leaves Idle only in a step of the start        *)
(* command: no motion event, timer or configuration command moves it out   *)
(* of Idle.                                                                *)
(***************************************************************************)
C13_LeavesIdleByCommand ==
    /\ change_detector.mode \in Sessions
    /\ [][ /\ change_detector'.mode \in Sessions
           /\ (change_detector.mode = "Idle" /\ change_detector'.mode # "Idle")
              => ( /\ last_call'.op = "start_session_handler"
                   /\ last_call'.call \in {"photo", "video", "timelapse"} ) ]_vars

\* a session started by command after motion and a settings command in Idle
C13_Witness ==
    /\ change_detector.mode = "TimelapseSession"
    /\ change_detector.timelapse_active
    /\ last_call.op = "start_session_handler"


(***************************************************************************)
(* stop_session runs on the request thread from its call to its return,    *)
(* so each of its steps is taken once it can be.                           *)
(***************************************************************************)
SpecSessionFair ==
    /\ SpecSession
    /\ WF_vars(QuietTimeout)
    /\ WF_vars(Handoff)
    /\ WF_vars(StopSessionStream)
    /\ WF_vars(StopSessionEnd)

(***************************************************************************)
(* C14: a stop command issued in any session state ends in Idle, and the   *)
(* session is Idle only with the capture to file and the pre-roll encoder  *)
(* stopped: whatever was in progress when the command arrived has been     *)
(* stopped before the session state becomes Idle.                          *)
(***************************************************************************)
C14_StopEndsIdle ==
    /\ [](change_detector.mode = "Idle"
          => ( /\ pipeline = "Idle"
               /\ ~driver.recording
               /\ ~driver.encoder_running ))
    /\ (change_detector.stopping
        ~> (change_detector.mode = "Idle" /\ ~change_detector.stopping))

\* a session that was stopped after a capture had been handed over
C14_Witness ==
    /\ variant = "rpi"
    /\ change_detector.mode = "Idle"
    /\ last_call.op = "stop_session"
    /\ Len(file_saver.videos) = 1


(***************************************************************************)
(* C15: in a TimelapseSession one still capture has been taken for every   *)
(* full interval since the session began, whether or not motion occurred,  *)
(* and a motion event causes no capture: with an interval of 10 s, a run   *)
(* of 30 s has produced exactly 3 captures.  Each firing of the timer      *)
(* takes one capture.                                                      *)
(***************************************************************************)
C15_TimelapseCaptures ==
    /\ []( ( /\ change_detector.mode = "TimelapseSession"
             /\ ~TimelapseDue(change_detector, clock) )
           => /\ change_detector.session_photos =
                   (clock - change_detector.session_start_time)
                     \div change_detector.timelapse
              /\ ( /\ change_detector.timelapse = 10
                   /\ clock - change_detector.session_start_time = 30 )
                 => change_detector.session_photos = 3 )
    /\ [][ ( /\ change_detector.mode = "TimelapseSession"
             /\ last_call'.op = "motion"
             /\ clock' = clock )
           => file_saver' = file_saver ]_vars
    /\ [][ ( /\ last_call # last_call'
             /\ last_call'.op = "timelapse" )
           => file_saver'.photos = file_saver.photos + 1 ]_vars

\* 30 s into a timelapse session with an interval of 10 s, after motion
C15_Witness ==
    /\ change_detector.mode = "TimelapseSession"
    /\ change_detector.timelapse = 10
    /\ clock - change_detector.session_start_time = 30
    /\ change_detector.session_photos = 3
    /\ last_call.op = "motion"


(***************************************************************************)
(* The sensitivity presets and the motion predicate                        *)
(*                                                                         *)
(* api.py:82-91 maps a preset to the pair it passes to                     *)
(* ChangeDetector.set_sensitivity; the comparison of a bounding box's      *)
(* width with the pair is the motion detector's and follows section 4.4 of *)
(* the specification.                                                      *)
(***************************************************************************)
MaxWidth == 6

Widths == 0 .. MaxWidth

\* the width lies strictly inside the band in force
qualifies_Inclusive(cd, w) == cd.minWidth <= w /\ w <= cd.maxWidth

qualifies(cd, w) == cd.minWidth < w /\ w < cd.maxWidth

\* POST /settings with only the key "sensitivity" (the request then ends at
\* api.py:112)
SetSensitivity ==
    \E preset \in SensitivityValues :
      /\ LET r == handle_sensitivity(
                    [ cfg |-> config, drv |-> driver, cd |-> change_detector,
                      exc |-> FALSE, inits |-> FALSE ],
                    [ sensitivity |-> preset ]) IN
           change_detector' = r.cd
      /\ last_call' = Called("settings_handler", "raised", preset, FALSE)
      /\ init_streak' = 0
      /\ UNCHANGED << variant, config, driver, stop_event, acq_pc, yuvimage,
                      image, captures, faults, stop_pc, req_pc, req_cmd,
                      pipeline, time_vars, exposure_vars, capture, edge_vars,
                    ctl_vars >>

\* the motion detector finds a bounding box of width w in the latest frame;
\* a qualifying one is a motion event
Detect ==
    \E w \in Widths :
      /\ change_detector.mode # "VideoSession"
      /\ ~change_detector.stopping
      /\ change_detector.mode = "PhotoSession" => file_saver.photos < MaxPhotos
      /\ motion' = [ width |-> w, qualifies |-> qualifies(change_detector, w),
                     preset |-> change_detector.sensitivity ]
      /\ LET r == IF qualifies(change_detector, w)
                  THEN on_motion([ cd |-> change_detector, fs |-> file_saver ],
                                 clock)
                  ELSE [ cd |-> change_detector, fs |-> file_saver ] IN
         /\ change_detector' = r.cd
         /\ file_saver' = r.fs
      /\ last_call' = Called("detect", "ok", "none", FALSE)
      /\ init_streak' = 0
      /\ UNCHANGED << variant, config, driver, stop_event, acq_pc, yuvimage,
                      image, captures, faults, stop_pc, req_pc, req_cmd,
                      pipeline, time_vars, exposure_vars, capture, reader,
                      out_vid,
                    ctl_vars >>

NextSensitivity ==
    \/ SetSensitivity
    \/ Detect
    \/ StartSession
    \/ StopSession
    \/ StopSessionStream
    \/ StopSessionEnd

SpecSensitivity == Init /\ [][NextSensitivity]_vars

\* the lower bound of a preset's pair; the upper bound of each is max_width
PresetMin(preset) ==
    IF preset = "less" THEN less_sensitivity
    ELSE IF preset = "more" THEN more_sensitivity
    ELSE min_width

(***************************************************************************)
(* C16: under each sensitivity preset, a bounding box of width w is a      *)
(* qualifying motion event exactly when w lies strictly between the        *)
(* preset's lower bound and max_width; a width equal to either bound does  *)
(* not qualify.                                                            *)
(***************************************************************************)
C16_QualifiesStrictlyInside ==
    motion.width # NoneNum =>
      /\ motion.preset \in Presets
      /\ motion.qualifies <=> ( /\ PresetMin(motion.preset) < motion.width
                                /\ motion.width < max_width )
      /\ motion.width \in {PresetMin(motion.preset), max_width}
           => ~motion.qualifies

\* under "less", a box exactly as wide as the lower bound was seen in a
\* photo session and no photo was taken
C16_Witness ==
    /\ motion.preset = "less"
    /\ motion.width = less_sensitivity
    /\ ~motion.qualifies
    /\ change_detector.mode = "PhotoSession"
    /\ file_saver.photos = 0
    /\ last_call.op = "detect"


(***************************************************************************)
(* The clip MockDriver writes                                              *)
(*                                                                         *)
(* The mock camera's scene is its video file, played at frame_rate from    *)
(* frame 0 at the time initialise_camera opened it (the clock of Init) and *)
(* repeated after num_frames frames.                                       *)
(***************************************************************************)
FrameCurrentAt(t) ==
    ((t - video_duration_before_motion) * frame_rate) % num_frames

\* how far apart two frames of the repeating video are
FrameDistance(a, b) ==
    LET fwd == (a - b) % num_frames
        bwd == (b - a) % num_frames IN
    IF fwd < bwd THEN fwd ELSE bwd

(***************************************************************************)
(* C17: the clip of a capture triggered at time T with pre-roll P starts   *)
(* within one frame of the frame that was current at T - P, and each of    *)
(* its frames is the successor of the one before it: none skipped,         *)
(* repeated or out of order.                                               *)
(***************************************************************************)
C17_ClipStartsAtPreroll ==
    ( /\ variant = "mock"
      /\ pipeline = "Stopping"
      /\ last_call.status = "ok"
      /\ capture.start - video_duration_before_motion
           >= video_duration_before_motion )
    => /\ out_vid # << >>
       /\ FrameDistance(
            out_vid[1],
            FrameCurrentAt(capture.start - video_duration_before_motion)) <= 1
       /\ \A i \in 1 .. Len(out_vid) - 1 :
            out_vid[i + 1] = (out_vid[i] + 1) % num_frames


(***************************************************************************)
(* The consumers of the latest frame (CameraController.py:107-117)         *)
(*                                                                         *)
(* A frame is the number of the capture it shows; a frame a consumer has   *)
(* drawn on is the negative of it.  An array handed out is either a copy   *)
(* or the very object the attribute holds ("shared"); the acquisition      *)
(* thread assigns a new object to the attribute with every capture.        *)
(***************************************************************************)
\* frame: what is returned (0 is None); returns: the call comes back in this
\* state instead of waiting
get_md_image_NoCopy(img) ==
    [ frame |-> img, shared |-> img # 0, returns |-> TRUE ]

get_md_image_WaitsForFrame(img) ==
    [ frame |-> img, shared |-> FALSE, returns |-> img # 0 ]

\* if self.image is not None: return self.image.copy()
get_md_image(img) ==
    [ frame |-> img, shared |-> FALSE, returns |-> TRUE ]

\* if self.yuvimage is not None: return self.yuvimage.copy()
get_md_yuvimage(yuv) ==
    [ frame |-> yuv, shared |-> FALSE, returns |-> TRUE ]

\* cv2.imencode(".jpg", self.get_md_image()): a new buffer holding the
\* encoded frame; imencode raises on None
get_image_binary(img) ==
    LET r == get_md_image(img) IN
    [ buf |-> r.frame, exc |-> r.frame = 0, returns |-> r.returns ]

\* the motion detector reads the YUV frame
ReadYuv ==
    /\ reader[Detector].yuv = 0
    /\ LET r == get_md_yuvimage(yuvimage) IN
       /\ r.returns
       /\ reader' = [reader EXCEPT ![Detector].yuv = r.frame,
                                   ![Detector].yuv_shared = r.shared,
                                   ![Detector].pc = "read"]
    /\ UNCHANGED << variant, config, driver, stop_event, acq_pc, yuvimage,
                    image, captures, faults, stop_pc, req_pc, req_cmd,
                    history, time_vars, exposure_vars, capture, file_saver,
                    out_vid, motion,
                    ctl_vars >>

\* the motion detector reads the converted frame
ReadImage ==
    /\ reader[Detector].img = 0
    /\ LET r == get_md_image(image) IN
       /\ r.returns
       /\ reader' = [reader EXCEPT ![Detector].img = r.frame,
                                   ![Detector].img_shared = r.shared,
                                   ![Detector].pc = "read"]
    /\ UNCHANGED << variant, config, driver, stop_event, acq_pc, yuvimage,
                    image, captures, faults, stop_pc, req_pc, req_cmd,
                    history, time_vars, exposure_vars, capture, file_saver,
                    out_vid, motion,
                    ctl_vars >>

\* the consumer draws on a frame it was given; an array that is the
\* attribute's own object changes for everyone
Modify ==
    /\ \/ /\ reader[Detector].img > 0
          /\ reader' = [reader EXCEPT ![Detector].img = -@,
                                      ![Detector].pc = "drawn"]
          /\ image' = IF reader[Detector].img_shared THEN -image ELSE image
          /\ UNCHANGED yuvimage
       \/ /\ reader[Detector].yuv > 0
          /\ reader' = [reader EXCEPT ![Detector].yuv = -@,
                                      ![Detector].pc = "drawn"]
          /\ yuvimage' = IF reader[Detector].yuv_shared THEN -yuvimage
                         ELSE yuvimage
          /\ UNCHANGED image
    /\ UNCHANGED << variant, config, driver, stop_event, acq_pc, captures,
                    faults, stop_pc, req_pc, req_cmd, history, time_vars,
                    exposure_vars, capture, file_saver, out_vid, motion,
                    ctl_vars >>

\* a preview request (generate_mjpg, generate_jpg) fetches the latest frame
\* as a JPEG
GetImageBinary(r) ==
    /\ reader[r].pc = "idle"
    /\ LET b == get_image_binary(image) IN
       /\ b.returns
       /\ reader' = [reader EXCEPT ![r].img = b.buf,
                                   ![r].pc = IF b.exc THEN "failed"
                                             ELSE "served"]
    /\ UNCHANGED << variant, config, driver, stop_event, acq_pc, yuvimage,
                    image, captures, faults, stop_pc, req_pc, req_cmd,
                    history, time_vars, exposure_vars, capture, file_saver,
                    out_vid, motion,
                    ctl_vars >>

Preview == \E r \in Readers : GetImageBinary(r)

\* a consumer is done with what it holds
Release ==
    /\ \E r \in Consumers :
         /\ reader[r] # IdleReader
         /\ reader' = [reader EXCEPT ![r] = IdleReader]
    /\ UNCHANGED << variant, config, driver, stop_event, acq_pc, yuvimage,
                    image, captures, faults, stop_pc, req_pc, req_cmd,
                    history, time_vars, exposure_vars, capture, file_saver,
                    out_vid, motion,
                    ctl_vars >>

\* a step of the acquisition thread
AcqStep ==
    \/ AcqCheck
    \/ AcqCaptureOk
    \/ AcqCaptureFail
    \/ AcqConvert
    \/ AcqSleep
    \/ AcqReinit

NextReaders ==
    \/ Start
    \/ AcqCheck
    \/ AcqCaptureOk
    \/ AcqCaptureFail
    \/ AcqConvert
    \/ AcqSleep
    \/ AcqReinit
    \/ ReadYuv
    \/ ReadImage
    \/ Modify
    \/ Preview
    \/ Release

SpecReaders == Init /\ [][NextReaders]_vars

(***************************************************************************)
(* C18: a frame handed to a consumer is a copy: a later capture leaves     *)
(* the frames consumers hold as they are, and a consumer drawing on its    *)
(* frame leaves the latest-frame attributes as they are.                   *)
(***************************************************************************)
C18_ConsumersHoldCopies ==
    /\ [](\A r \in Consumers : ~reader[r].yuv_shared /\ ~reader[r].img_shared)
    /\ [][ (yuvimage' # yuvimage \/ image' # image)
           => \A r \in Consumers : /\ reader'[r].yuv = reader[r].yuv
                                   /\ reader'[r].img = reader[r].img ]_vars
    /\ [][ (\E r \in Consumers : reader'[r].pc = "drawn" /\ reader'[r] # reader[r])
           => yuvimage' = yuvimage /\ image' = image ]_vars

\* the detector drew on the frame it read and the attribute still holds
\* the capture
C18_Witness ==
    /\ reader[Detector].pc = "drawn"
    /\ reader[Detector].img < 0
    /\ image = -reader[Detector].img
    /\ reader[Detector].yuv > 0
    /\ yuvimage # reader[Detector].yuv


(***************************************************************************)
(* C19: only the acquisition thread writes the latest-frame attributes,    *)
(* and a consumer that reads the YUV frame and the converted frame that    *)
(* the attributes hold gets the two forms of one and the same capture.     *)
(***************************************************************************)
C19_OneCapturePerSnapshot ==
    /\ [][ (yuvimage' # yuvimage \/ image' # image)
           => acq_pc \in {"capture", "convert"} /\ acq_pc' # acq_pc ]_vars
    /\ []( ( /\ reader[Detector].yuv > 0
             /\ reader[Detector].img > 0
             /\ reader[Detector].yuv = yuvimage
             /\ reader[Detector].img = image )
           => reader[Detector].yuv = reader[Detector].img )


\* the acquisition thread is running: started and not ended
AcqRunning == acq_pc \in {"loop", "capture", "convert", "sleep", "reinit"}

(***************************************************************************)
(* C20: a preview request's get_image_binary can complete in every state,  *)
(* whatever the acquisition thread is doing (inside a capture, inside a    *)
(* reinitialisation, before its first frame), and the running acquisition  *)
(* thread can take its next step whatever the consumers hold.              *)
(***************************************************************************)
C20_NeitherWaits ==
    /\ \A r \in Readers : reader[r].pc = "idle" => ENABLED GetImageBinary(r)
    /\ AcqRunning => ENABLED AcqStep

\* the acquisition thread is inside a reinitialisation, one preview request
\* has been served and another is about to be made, while the detector
\* holds a frame
C20_Witness ==
    /\ acq_pc = "reinit"
    /\ \E r \in Readers : reader[r].pc = "served"
    /\ \E r \in Readers : reader[r].pc = "idle"
    /\ reader[Detector].yuv # 0


(***************************************************************************)
(* RPiDriver.autofocus (RaspberryPiDriver.py:107-119) and                  *)
(* MockDriver.autofocus (MockDriver.py:106-107)                            *)
(*                                                                         *)
(* can_autofocus in line 109 is read as the property self.can_autofocus    *)
(* of line 28.  A focus cycle is the camera's: it succeeds or fails.       *)
(***************************************************************************)
\* for _ in range(5)
MaxFocusCycles == 5

\* a: the call's position; the assert on self.camera, then the capability
autofocus_enter(v, d, a, capable) ==
    IF v = "mock" THEN [a EXCEPT !.pc = "returned", !.capable = capable]
    ELSE IF d.cam = "none" THEN [a EXCEPT !.pc = "raised"]
    ELSE IF capable THEN [a EXCEPT !.pc = "cycle", !.capable = TRUE]
    ELSE [a EXCEPT !.pc = "returned", !.capable = FALSE]

\* success = self.camera.autofocus_cycle(); if success: return
autofocus_cycle(a, success) ==
    [a EXCEPT !.cycles = @ + 1,
              !.pc = IF success THEN "focused" ELSE "sleep"]

autofocus_sleep_Unbounded(a) ==
    [a EXCEPT !.sleeps = @ + 1, !.pc = "cycle"]

\* time.sleep(1), then the next of the five iterations or the end of the loop
autofocus_sleep(a) ==
    [a EXCEPT !.sleeps = @ + 1,
              !.pc = IF a.cycles < MaxFocusCycles THEN "cycle" ELSE "returned"]

\* CameraController.run_autofocus: self.driver.autofocus()
AfCall ==
    /\ af.pc = "idle"
    /\ clock < video_duration_before_motion + MaxClock
    /\ \E capable \in BOOLEAN :
         af' = autofocus_enter(variant, driver, af, capable)
    /\ UNCHANGED << variant, config, driver, stop_event, acq_pc, yuvimage,
                    image, captures, faults, stop_pc, req_pc, req_cmd,
                    history, time_vars, exposure_vars, capture, edge_vars,
                    recording_active, acq_sleep, thread_starts >>

AfCycle ==
    /\ af.pc = "cycle"
    /\ \E success \in BOOLEAN : af' = autofocus_cycle(af, success)
    /\ UNCHANGED << variant, config, driver, stop_event, acq_pc, yuvimage,
                    image, captures, faults, stop_pc, req_pc, req_cmd,
                    history, time_vars, exposure_vars, capture, edge_vars,
                    recording_active, acq_sleep, thread_starts >>

\* the second of time.sleep(1) passes
AfSleep ==
    /\ af.pc = "sleep"
    /\ af' = autofocus_sleep(af)
    /\ clock' = clock + 1
    /\ UNCHANGED << variant, config, driver, stop_event, acq_pc, yuvimage,
                    image, captures, faults, stop_pc, req_pc, req_cmd,
                    history, time_req, time_assigned, exposure_vars, capture,
                    edge_vars, recording_active, acq_sleep, thread_starts >>

\* the call is over; the next one starts afresh
AfReturn ==
    /\ af.pc \in {"focused", "returned", "raised"}
    /\ af' = NoAutofocus
    /\ UNCHANGED << variant, config, driver, stop_event, acq_pc, yuvimage,
                    image, captures, faults, stop_pc, req_pc, req_cmd,
                    history, time_vars, exposure_vars, capture, edge_vars,
                    recording_active, acq_sleep, thread_starts >>

\* autofocus calls on a driver that is initialised, or has been stopped
NextAutofocus ==
    \/ AfCall
    \/ AfCycle
    \/ AfSleep
    \/ AfReturn
    \/ StopSet
    \/ StopRelease

SpecAutofocus ==
    /\ Init
    /\ [][NextAutofocus]_vars
    /\ WF_vars(AfCycle)
    /\ WF_vars(AfSleep)

C22_OneReinitPerFailure ==
    /\ [][ (acq_pc = "capture" /\ acq_pc' # "capture" /\ captures' = captures)
           => /\ acq_pc' = "reinit"
              /\ yuvimage' = yuvimage /\ image' = image
              /\ change_detector' = change_detector /\ pipeline' = pipeline
              /\ driver' = driver /\ config' = config ]_vars
    /\ [][ (acq_pc = "reinit" /\ acq_pc' # "reinit")
           => /\ \E fault \in BOOLEAN :
                   driver' = initialise_camera(variant, driver, config,
                                               fault).drv
              /\ acq_pc' \in {"sleep", "crashed"}
              /\ yuvimage' = yuvimage /\ image' = image
              /\ change_detector' = change_detector /\ pipeline' = pipeline ]_vars
    /\ [][ acq_pc' = "capture" => acq_pc \in {"loop", "capture"} ]_vars

\* a capture failed after a setting had been changed and a frame published;
\* the camera was reinitialised with the changed configuration
C22_Witness ==
    /\ acq_pc = "sleep"
    /\ acq_sleep = SleepAfterFault
    /\ image # 0
    /\ faults > 0
    /\ config # DefaultConfig
    /\ driver = initialise_camera(variant, driver, config, FALSE).drv


(***************************************************************************)
(* C23: the step in which stop() releases the driver is taken only while   *)
(* the acquisition thread is between driver calls: never while a capture   *)
(* or a reinitialisation is in progress on it.                             *)
(***************************************************************************)
C23_ReleaseBetweenDriverCalls ==
    [][ (stop_pc = "release" /\ stop_pc' # "release") => ~AcqInDriver ]_vars


(***************************************************************************)
(* The polling rate of the acquisition loop                                *)
(*                                                                         *)
(* recording_active is an attribute of the controller that run() only      *)
(* reads; it is written from outside the controller, at any time.          *)
(***************************************************************************)
SetRecordingActive ==
    /\ \E b \in BOOLEAN : recording_active' = b /\ b # recording_active
    /\ UNCHANGED << variant, config, driver, stop_event, acq_pc, yuvimage,
                    image, captures, faults, stop_pc, req_pc, req_cmd,
                    history, time_vars, exposure_vars, capture, edge_vars,
                    af, acq_sleep, thread_starts >>

NextPoll ==
    \/ Start
    \/ AcqCheck
    \/ AcqCaptureOk
    \/ AcqCaptureFail
    \/ AcqConvert
    \/ AcqSleep
    \/ AcqReinit
    \/ SetRecordingActive

SpecPoll == Init /\ [][NextPoll]_vars

(***************************************************************************)
(* C24: after a successful low-res capture the acquisition loop waits 1 s  *)
(* exactly when recording is active at that moment and 0.03 s otherwise;   *)
(* after a failed capture it waits 0.02 s whether recording is active or   *)
(* not.                                                                    *)
(***************************************************************************)
C24_PollingRate ==
    /\ [][ (acq_pc = "convert" /\ acq_pc' # "convert")
           => /\ acq_sleep' = 1000 <=> recording_active
              /\ acq_sleep' = 30 <=> ~recording_active ]_vars
    /\ [][ (acq_pc = "reinit" /\ acq_pc' = "sleep") => acq_sleep' = 20 ]_vars
    /\ [][ acq_sleep' # acq_sleep => acq_pc \in {"convert", "reinit"} ]_vars

\* the loop is in its 1 s wait after a capture made while recording, having
\* waited 0.02 s after a fault before
C24_Witness ==
    /\ acq_pc = "sleep"
    /\ acq_sleep = 1000
    /\ recording_active
    /\ faults > 0
    /\ image # 0

(***************************************************************************)
(* MockDriver: the positions in the two test videos                        *)
(*                                                                         *)
(* Time is counted in whole seconds and frame_rate is a whole number of    *)
(* frames per second, so int(time_since_last_call * frame_rate) loses      *)
(* nothing here.                                                           *)
(***************************************************************************)
\* advance_lores_video(shift): the LORES video is moved on by the frames
\* that fit in the time since self.wall_time, which becomes now
Mock_advance_lores_video(d, shift) ==
    LET frames_since_last_call == (time_time - d.wall_time + shift) * frame_rate IN
    [d EXCEPT !.wall_time = time_time,
              !.lores_pos = (@ + frames_since_last_call) % num_frames]

\* get_yuv_image(resolution): advance_lores_video() whatever the resolution,
\* then self.video[resolution].read(), which moves that video on by one
\* frame; read() returns nothing past the last frame (assert ret == True)
Mock_get_yuv_image(d, resolution) ==
    IF d.cam # "open" THEN Raise(d)
    ELSE LET a == Mock_advance_lores_video(d, 0) IN
         IF resolution = "LORES"
         THEN Ok([a EXCEPT !.lores_pos = @ + 1])
         ELSE IF a.hires_pos >= num_frames THEN Raise(a)
         ELSE Ok([a EXCEPT !.hires_pos = @ + 1])

\* self.driver.get_yuv_image(ImageResolution.LORES), as run() calls it
MockLores ==
    /\ variant = "mock"
    /\ LET r == Mock_get_yuv_image(driver, "LORES") IN
       /\ driver' = r.drv
       /\ last_call' = Called("get_yuv_image", IF r.exc THEN "raised" ELSE "ok",
                              "LORES", FALSE)
    /\ init_streak' = 0
    /\ UNCHANGED << variant, config, stop_event, acq_pc, yuvimage, image,
                    captures, faults, stop_pc, req_pc, req_cmd, pipeline,
                    change_detector, time_vars, exposure_vars, capture,
                    edge_vars, ctl_vars >>

\* CameraController.get_hires_image: self.driver.get_yuv_image(HIRES)
MockHires ==
    /\ variant = "mock"
    /\ LET r == Mock_get_yuv_image(driver, "HIRES") IN
       /\ driver' = r.drv
       /\ last_call' = Called("get_hires_image",
                              IF r.exc THEN "raised" ELSE "ok", "HIRES", FALSE)
    /\ init_streak' = 0
    /\ UNCHANGED << variant, config, stop_event, acq_pc, yuvimage, image,
                    captures, faults, stop_pc, req_pc, req_cmd, pipeline,
                    change_detector, time_vars, exposure_vars, capture,
                    edge_vars, ctl_vars >>

NextMock ==
    \/ MockLores
    \/ MockHires
    \/ StartVideoStream
    \/ StopVideoStream
    \/ Trigger
    \/ QuietTimeout
    \/ Handoff
    \/ Tick

SpecMock == Init /\ [][NextMock]_vars

(***************************************************************************)
(* C25: with the mock driver, whenever a low-res frame request has just    *)
(* returned, the position in the low-res video is within one frame of the  *)
(* position at initialisation (frame 0) plus the time elapsed since then   *)
(* times frame_rate, modulo num_frames, however many requests the elapsed  *)
(* time was divided into.                                                  *)
(***************************************************************************)
C25_LoresFollowsWallClock ==
    (/\ variant = "mock"
     /\ last_call = Called("get_yuv_image", "ok", "LORES", FALSE))
    => FrameDistance(driver.lores_pos % num_frames,
                     FrameCurrentAt(driver.wall_time)) <= 1

(***************************************************************************)
(* C26: with the mock driver a low-res frame request leaves the position   *)
(* in the hi-res video unchanged, and a hi-res frame request or the        *)
(* writing of a video file leaves the position in the low-res video and    *)
(* the wall-clock reference unchanged.                                     *)
(***************************************************************************)
C26_CursorsIndependent ==
    /\ [][ (variant = "mock" /\ driver' # driver
            /\ last_call'.op = "get_yuv_image")
           => driver'.hires_pos = driver.hires_pos ]_vars
    /\ [][ (variant = "mock" /\ driver' # driver
            /\ last_call'.op \in {"get_hires_image", "trigger",
                                  "quiet_timeout"})
           => /\ driver'.lores_pos = driver.lores_pos
              /\ driver'.wall_time = driver.wall_time ]_vars

(***************************************************************************)
(* Starting the acquisition thread from the feeds (api.py)                 *)
(*                                                                         *)
(* generate_mjpg and generate_jpg begin with                               *)
(*     while camera_controller.is_alive() is False:                        *)
(*         camera_controller.start(); time.sleep(1)                        *)
(* on the thread that serves the request.  Thread.start() raises           *)
(* RuntimeError when the thread object has been started before, whether    *)
(* it is still running or not.                                             *)
(***************************************************************************)
\* Thread.is_alive(): started and run() has not returned or raised
is_alive == acq_pc \notin {"unstarted", "exited", "crashed"}

\* Thread.start() on the controller: t is thread_starts, r the caller
thread_start(t, r) ==
    IF t.started
    THEN [t EXCEPT !.refused = @ + 1, !.feed[r] = "raised"]
    ELSE [t EXCEPT !.started = TRUE, !.feed[r] = "sleep"]

\* the loop test, on entry and after time.sleep(1)
FeedTest(r) ==
    /\ thread_starts.feed[r] \in {"idle", "sleep"}
    /\ thread_starts' =
         [thread_starts EXCEPT !.feed[r] = IF is_alive THEN "serving"
                                           ELSE "start"]
    /\ UNCHANGED << variant, config, driver, stop_event, acq_pc, yuvimage,
                    image, captures, faults, stop_pc, req_pc, req_cmd,
                    history, time_vars, exposure_vars, capture, edge_vars,
                    af, recording_active, acq_sleep >>

\* camera_controller.start()
FeedStart(r) ==
    /\ thread_starts.feed[r] = "start"
    /\ thread_starts' = thread_start(thread_starts, r)
    /\ acq_pc' = IF thread_starts.started THEN acq_pc ELSE "loop"
    /\ UNCHANGED << variant, config, driver, stop_event, yuvimage, image,
                    captures, faults, stop_pc, req_pc, req_cmd, history,
                    time_vars, exposure_vars, capture, edge_vars, af,
                    recording_active, acq_sleep >>

\* the response has been produced and the request is over
FeedServed(r) ==
    /\ thread_starts.feed[r] = "serving"
    /\ thread_starts' = [thread_starts EXCEPT !.feed[r] = "idle"]
    /\ UNCHANGED << variant, config, driver, stop_event, acq_pc, yuvimage,
                    image, captures, faults, stop_pc, req_pc, req_cmd,
                    history, time_vars, exposure_vars, capture, edge_vars,
                    af, recording_active, acq_sleep >>

NextFeed ==
    \/ \E r \in Readers : FeedTest(r)
    \/ \E r \in Readers : FeedStart(r)
    \/ \E r \in Readers : FeedServed(r)
    \/ AcqCheck
    \/ AcqCaptureOk
    \/ AcqCaptureFail
    \/ AcqConvert
    \/ AcqSleep
    \/ AcqReinit
    \/ StopSet
    \/ StopRelease

SpecFeed == Init /\ [][NextFeed]_vars

(***************************************************************************)
(* C27: whatever the interleaving of feed requests, frame requests and     *)
(* stop(), no request calls start() on the acquisition thread once it has  *)
(* been started, also after the controller was stopped: no start() is      *)
(* refused.                                                                *)
(***************************************************************************)
C27_StartedAtMostOnce == thread_starts.refused = 0

\* the hook the driver applies to each frame: camera.pre_callback for
\* RPiDriver, self.callback for MockDriver
HookInstalled(v, d) == IF v = "rpi" THEN d.pre_callback ELSE d.callback

(***************************************************************************)
(* C28: after any sequence of set_TimestampMode calls and camera           *)
(* reinitialisations, while the driver holds an open camera the timestamp  *)
(* hook is installed in the driver exactly when the configuration's        *)
(* timestamp setting is "on".                                              *)
(***************************************************************************)
C28_HookFollowsConfig ==
    driver.cam = "open"
    => (HookInstalled(variant, driver) <=> config.timestamp = "on")

(***************************************************************************)
(* C29: after any sequence of set_LED, set_exposure, auto_exposure,        *)
(* set_resolution, set_camera_rotation and reinitialisations after a       *)
(* fault, the driver's LED state and exposure mode are those of the        *)
(* configuration.                                                          *)
(***************************************************************************)
C29_DriverAgreesWithConfig ==
    /\ driver.LED = ConfigLED(config)
    /\ driver.exposure.mode = ConfigExposureMode(config)

\* the setter calls whose argument is the value the configuration holds
SameValueCmds(cfg) ==
    { RotationCmd(cfg.rotate_camera = 1), ResolutionCmd(cfg.resolution),
      LEDCmd(cfg.LED) }

(***************************************************************************)
(* C30: set_resolution, set_camera_rotation or set_LED called with the     *)
(* value the configuration already holds changes nothing: the call makes   *)
(* no driver call, reinitialises nothing, raises nothing and leaves the    *)
(* configuration and the driver as they were.                              *)
(***************************************************************************)
C30_SameValueIsNoOp ==
    [][ \A cmd \in SameValueCmds(config) :
          Run(cmd) => /\ config' = config
                      /\ driver' = driver
                      /\ init_streak' = init_streak
                      /\ faults' = faults
                      /\ last_call' = Called(cmd.op, "ok", "none", FALSE) ]_vars

\* the resolution was changed, the camera reinitialised for it, and then
\* set_resolution was called again with the new value
C30_Witness ==
    /\ last_call = Called("set_resolution", "ok", "none", FALSE)
    /\ config.resolution = "1920x1080"
    /\ driver.size = hi_res(config)
    /\ driver.cam = "open"

(***************************************************************************)
(* C31: an update_time request whose value is not greater than 1580317004  *)
(* and which finds device_time unset is answered 400 and changes neither   *)
(* device_time nor device_time_start; no request with such a value ever    *)
(* sets them.  A request with a greater value that finds device_time unset *)
(* is then still accepted: its next step assigns its value to device_time  *)
(* and it is answered 200.                                                 *)
(***************************************************************************)
C31_RejectedLeavesUnset ==
    /\ [][ \A t \in TimeThreads :
             ( /\ time_req[t].pc = "checked"
               /\ time_req'[t] # time_req[t]
               /\ time_req[t].time_string <= 1580317004 )
             => ( /\ time_req'[t].pc = "done"
                  /\ time_req'[t].status = 400
                  /\ change_detector' = change_detector
                  /\ time_assigned' = time_assigned ) ]_vars
    /\ [][ \A t \in TimeThreads :
             ( /\ time_req[t].pc = "idle"
               /\ time_req'[t].pc # "idle" )
             => ( /\ change_detector' = change_detector
                  /\ time_req'[t].pc = "checked"
                       <=> change_detector.device_time = NoneNum ) ]_vars
    /\ [][ \A t \in TimeThreads :
             ( /\ time_req[t].pc = "checked"
               /\ time_req'[t] # time_req[t]
               /\ time_req[t].time_string > 1580317004 )
             => ( /\ time_req'[t].pc = "assigned"
                  /\ change_detector'.device_time = time_req[t].time_string
                  /\ time_assigned' = time_assigned + 1 ) ]_vars
    /\ [][ \A t \in TimeThreads :
             time_req'[t].status = 200
             => ( /\ time_req'[t].time_string > 1580317004
                  /\ change_detector'.device_time # NoneNum ) ]_vars

\* one request was answered 400 for the threshold value, and the single
\* synchronisation went to another request with a valid value
C31_Witness ==
    \E t, u \in TimeThreads :
      /\ time_req[t].status = 400
      /\ time_req[t].time_string = 1580317004
      /\ time_req[u].status = 200
      /\ change_detector.device_time = time_req[u].time_string
      /\ change_detector.device_time_start # NoneNum
      /\ time_assigned = 1

=============================================================================
